---- MODULE Spec2Model ----
(***************************************************************************)
(* Model of the NBAScheduler event pipeline: the cleaning pipeline         *)
(* (clean_events.py main, run_api.py clean_and_save and the older          *)
(* module-level clean_events script) and the cross-source validation run   *)
(* (validate.py main).                                                     *)
(*                                                                         *)
(* Strings are sequences of one-character strings, so that lower(),        *)
(* strip(), slicing, substring containment and code-point ordering are     *)
(* computed as Python computes them.  A pandas DataFrame is the sequence   *)
(* of its rows.                                                            *)
(***************************************************************************)
EXTENDS Integers, Sequences, FiniteSets, TLC

\* ------------------------------------------------------------------------
\* Bounds of the model
\* ------------------------------------------------------------------------
\* Total number of raw events over all the per-team cache files.
MaxEvents == 2
\* Events over all cache files, and rows of each CSV, of a run over input
\* files that lack a column
MaxSchemaEvents == 1

\* ------------------------------------------------------------------------
\* Python string operations
\* ------------------------------------------------------------------------
\* Unicode code points of the characters that occur in the model; Python
\* compares str values code point by code point.
CodePoint ==
    (" " :> 32) @@ ("-" :> 45) @@ ("0" :> 48) @@ ("1" :> 49) @@ ("2" :> 50) @@ ("3" :> 51) @@ ("4" :> 52) @@ ("5" :> 53) @@ ("6" :> 54) @@ ("7" :> 55) @@ ("8" :> 56) @@ ("9" :> 57) @@ (":" :> 58) @@ ("A" :> 65) @@ ("B" :> 66) @@ ("C" :> 67) @@ ("D" :> 68) @@ ("E" :> 69) @@ ("F" :> 70) @@ ("G" :> 71) @@ ("H" :> 72) @@ ("I" :> 73) @@ ("J" :> 74) @@ ("K" :> 75) @@ ("L" :> 76) @@ ("M" :> 77) @@ ("N" :> 78) @@ ("O" :> 79) @@ ("P" :> 80) @@ ("Q" :> 81) @@ ("R" :> 82) @@ ("S" :> 83) @@ ("T" :> 84) @@ ("U" :> 85) @@ ("V" :> 86) @@ ("W" :> 87) @@ ("X" :> 88) @@ ("Y" :> 89) @@ ("Z" :> 90) @@ ("a" :> 97) @@ ("b" :> 98) @@ ("c" :> 99) @@ ("d" :> 100) @@ ("e" :> 101) @@ ("f" :> 102) @@ ("g" :> 103) @@ ("h" :> 104) @@ ("i" :> 105) @@ ("j" :> 106) @@ ("k" :> 107) @@ ("l" :> 108) @@ ("m" :> 109) @@ ("n" :> 110) @@ ("o" :> 111) @@ ("p" :> 112) @@ ("q" :> 113) @@ ("r" :> 114) @@ ("s" :> 115) @@ ("t" :> 116) @@ ("u" :> 117) @@ ("v" :> 118) @@ ("w" :> 119) @@ ("x" :> 120) @@ ("y" :> 121) @@ ("z" :> 122) @@ ("E_acute" :> 201) @@ ("e_acute" :> 233) @@ ("U+0301" :> 769)

\* str.lower() on one character ("E_acute"/"e_acute" stand for U+00C9/U+00E9).
UpperToLower ==
    ("A" :> "a") @@ ("B" :> "b") @@ ("C" :> "c") @@ ("D" :> "d") @@ ("E" :> "e") @@ ("F" :> "f") @@ ("G" :> "g") @@ ("H" :> "h") @@ ("I" :> "i") @@ ("J" :> "j") @@ ("K" :> "k") @@ ("L" :> "l") @@ ("M" :> "m") @@ ("N" :> "n") @@ ("O" :> "o") @@ ("P" :> "p") @@ ("Q" :> "q") @@ ("R" :> "r") @@ ("S" :> "s") @@ ("T" :> "t") @@ ("U" :> "u") @@ ("V" :> "v") @@ ("W" :> "w") @@ ("X" :> "x") @@ ("Y" :> "y") @@ ("Z" :> "z") @@ ("E_acute" :> "e_acute")

LowerChar(c) == IF c \in DOMAIN UpperToLower THEN UpperToLower[c] ELSE c

\* str.lower()
RECURSIVE Lower(_)
Lower(s) == IF s = <<>> THEN <<>> ELSE <<LowerChar(Head(s))>> \o Lower(Tail(s))

IsSpace(c) == c = " "

RECURSIVE LStrip(_)
LStrip(s) == IF s # <<>> /\ IsSpace(Head(s)) THEN LStrip(Tail(s)) ELSE s

RECURSIVE RStrip(_)
RStrip(s) ==
    IF s # <<>> /\ IsSpace(s[Len(s)]) THEN RStrip(SubSeq(s, 1, Len(s) - 1)) ELSE s

\* str.strip()
Strip(s) == RStrip(LStrip(s))

\* a containment test that finds the empty string in no string
ContainsNonEmpty(needle, hay) ==
    /\ needle # <<>>
    /\ \E i \in 0..(Len(hay) - Len(needle)) : SubSeq(hay, i + 1, i + Len(needle)) = needle

\* Python's `needle in hay` on str: the empty string is in every string.
Contains(needle, hay) ==
    \E i \in 0..(Len(hay) - Len(needle)) : SubSeq(hay, i + 1, i + Len(needle)) = needle

\* Python's s[:n]
Slice(s, n) == SubSeq(s, 1, IF Len(s) < n THEN Len(s) ELSE n)

\* Python's a < b on str
RECURSIVE StrLess(_, _)
StrLess(a, b) ==
    IF b = <<>> THEN FALSE
    ELSE IF a = <<>> THEN TRUE
    ELSE IF Head(a) = Head(b) THEN StrLess(Tail(a), Tail(b))
    ELSE CodePoint[Head(a)] < CodePoint[Head(b)]


\* ------------------------------------------------------------------------
\* Calendar dates
\* ------------------------------------------------------------------------
\* A raw date is the record [y, m, d] of the fields of a "YYYY-MM-DD"
\* string; NullDate is a missing (None) date.  A parsed date is the number of
\* days since 2025-12-31; NaT is pandas' not-a-time.
NaT == -1
NullDate == [y |-> 0, m |-> 0, d |-> 0]
EpochYear == 2026

IsLeap(y) == (y % 4 = 0 /\ y % 100 # 0) \/ y % 400 = 0

DaysInMonth(y, m) ==
    IF m = 2 THEN (IF IsLeap(y) THEN 29 ELSE 28)
    ELSE IF m \in {4, 6, 9, 11} THEN 30 ELSE 31

RECURSIVE DaysBeforeMonth(_, _)
DaysBeforeMonth(y, m) ==
    IF m = 1 THEN 0 ELSE DaysBeforeMonth(y, m - 1) + DaysInMonth(y, m - 1)

RECURSIVE DaysBeforeYear(_)
DaysBeforeYear(y) ==
    IF y <= EpochYear THEN 0
    ELSE DaysBeforeYear(y - 1) + (IF IsLeap(y - 1) THEN 366 ELSE 365)

IsValidDate(raw) ==
    /\ raw.y >= EpochYear
    /\ raw.m \in 1..12
    /\ raw.d \in 1..DaysInMonth(raw.y, raw.m)

\* pd.Timestamp(text) of a valid date string
Timestamp(raw) == DaysBeforeYear(raw.y) + DaysBeforeMonth(raw.y, raw.m) + raw.d

\* a parser that rolls a day past the end of its month over into the next
\* month instead of rejecting the date
ToDatetimeRollover(raw) ==
    IF raw.y >= EpochYear /\ raw.m \in 1..12 /\ raw.d >= 1 THEN Timestamp(raw) ELSE NaT

\* pd.to_datetime(value, errors="coerce") on one value
ToDatetime(raw) == IF IsValidDate(raw) THEN Timestamp(raw) ELSE NaT

\* ------------------------------------------------------------------------
\* Inputs of the cleaning pipeline
\* ------------------------------------------------------------------------
NameGame == <<"C", "e", "l", "t", "i", "c", "s", " ", "v", "s", " ", "K", "n", "i", "c", "k", "s">>
NameDeposit == <<"C", "l", "u", "b", " ", "D", "E", "P", "O", "S", "I", "T">>
NameGifted == <<"G", "i", "f", "t", "e", "d", " ", "N", "i", "g", "h", "t">>
NameTournament == <<"T", "o", "u", "r", "n", "a", "m", "e", "n", "t">>
NameKiss == <<"K", "i", "s", "s">>
NameEmpty == <<>>
VenueTD == <<"T", "D", " ", "G", "a", "r", "d", "e", "n">>
VenueWhitespace == <<" ", " ">>
VenueTDLoose == <<" ", "t", "d", " ", "g", "a", "r", "d", "e", "n", " ">>
VenueTDPlaza == <<"T", "D", " ", "G", "a", "r", "d", "e", "n", " ", "P", "l", "a", "z", "a">>
VenueBarclays == <<"B", "a", "r", "c", "l", "a", "y", "s", " ", "C", "e", "n", "t", "e", "r">>
VenueMGM == <<"M", "G", "M", " ", "M", "u", "s", "i", "c", " ", "H", "a", "l", "l">>
Time19 == <<"1", "9", ":", "0", "0">>
Time20 == <<"2", "0", ":", "0", "0">>

\* nba_venues.csv: the venue registry, one row per team.
Registry ==
    << [Team |-> "Boston Celtics", VenueName |-> VenueTD],
       [Team |-> "Brooklyn Nets", VenueName |-> VenueBarclays] >>

\* --start-date / --end-date (defaults of parse_args, and a one-day window)
Windows ==
    { [start |-> [y |-> 2026, m |-> 4, d |-> 14], end |-> [y |-> 2026, m |-> 6, d |-> 19]],
      [start |-> [y |-> 2026, m |-> 4, d |-> 20], end |-> [y |-> 2026, m |-> 4, d |-> 20]] }

RawEvent(n, y, m, d, t, v) ==
    [name |-> n, date |-> [y |-> y, m |-> m, d |-> d], time |-> t, venue |-> v]

\* The raw events a cache file may hold ({name, date, time, venue} objects).
RawPool ==
    { RawEvent(NameGame, 2026, 4, 20, Time19, VenueTD),
      RawEvent(NameDeposit, 2026, 4, 20, Time19, VenueTD),
      RawEvent(NameTournament, 2026, 4, 20, Time19, VenueTD),
      RawEvent(NameGame, 2026, 4, 20, Time19, VenueTDLoose),
      RawEvent(NameGifted, 2026, 4, 14, Time19, VenueBarclays),
      RawEvent(NameTournament, 2026, 4, 14, Time20, VenueBarclays),
      RawEvent(NameKiss, 2026, 6, 19, Time20, VenueTDPlaza),
      RawEvent(NameKiss, 2026, 6, 20, Time20, VenueBarclays),
      RawEvent(NameKiss, 2026, 4, 31, Time20, VenueTD),
      RawEvent(NameKiss, 0, 0, 0, Time20, VenueTD),
      RawEvent(NameEmpty, 2026, 4, 20, Time20, VenueTD),
      RawEvent(NameKiss, 2026, 4, 20, Time19, VenueWhitespace),
      RawEvent(NameKiss, 2026, 4, 14, Time20, VenueMGM) }

\* A cache file: absent, or present with the JSON list it holds.
MissingFile == [exists |-> FALSE, events |-> <<>>]
CacheFile(events) == [exists |-> TRUE, events |-> events]

SeqsUpTo(S, n) == UNION { [1..k -> S] : k \in 0..n }

\* The cache files of registry rows i..Len(venues), holding at most budget
\* events together.
RECURSIVE CacheChoices(_, _, _)
CacheChoices(venues, i, budget) ==
    IF i > Len(venues) THEN { <<>> }
    ELSE UNION { { <<c>> \o rest : rest \in CacheChoices(venues, i + 1, budget - Len(c.events)) } :
                 c \in {MissingFile} \cup { CacheFile(e) : e \in SeqsUpTo(RawPool, budget) } }

TeamsOf(venues) == { venues[i].Team : i \in 1..Len(venues) }

RowOf(venues, team) == CHOOSE i \in 1..Len(venues) : venues[i].Team = team

\* The cleaning entry points: clean_events.py main, and the older
\* module-level script "NBA Schedule Optimization/clean_events.py".
Scripts == { "clean_events", "legacy" }

\* ------------------------------------------------------------------------
\* The cleaning stages (clean_events.py main / run_api.py clean_and_save)
\* ------------------------------------------------------------------------
exclude_kw ==
    << <<"v", "o", "u", "c", "h", "e", "r">>,
       <<"s", "u", "i", "t", "e", " ", "p", "a", "s", "s">>,
       <<"p", "o", "s", "t", " ", "g", "a", "m", "e">>,
       <<"i", "t", "e", "m">>,
       <<"e", "d", "u", "c", "a", "t", "o", "r">>,
       <<"a", "c", "c", "e", "s", "s", " ", "o", "n", "l", "y">>,
       <<"g", "i", "f", "t">>,
       <<"d", "i", "s", "c", "o", "u", "n", "t", " ", "p", "a", "s", "s">>,
       <<"t", "o", "u", "r", " ", "e", "x", "p", "e", "r", "i", "e", "n", "c", "e">>,
       <<" ", "t", "o", "u", "r">>,
       <<"a", "r", "e", "n", "a", " ", "t", "o", "u", "r">>,
       <<"d", "e", "p", "o", "s", "i", "t">>,
       <<" ", "o", "f", "f", "e", "r">>,
       <<"t", "e", "s", "t", "i", "n", "g">>,
       <<"h", "a", "l", "f", "t", "i", "m", "e">>,
       <<"p", "r", "o", "s", "p", "e", "c", "t", " ", "d", "e", "p", "o", "s", "i", "t">>,
       <<"c", "l", "u", "b", " ", "d", "e", "p", "o", "s", "i", "t">>,
       <<"m", "e", "m", "b", "e", "r", " ", "o", "f", "f", "e", "r">>,
       <<"m", "e", "m", "b", "e", "r", " ", "d", "r", "o", "p">>,
       <<"a", "d", "d", " ", "o", "n">>,
       <<"t", "s", "h", "i", "r", "t">>,
       <<"t", "-", "s", "h", "i", "r", "t">>,
       <<"d", "r", "e", "a", "m", " ", "t", "e", "a", "m">>,
       <<"g", "r", "o", "u", "p", " ", "d", "e", "p", "o", "s", "i", "t">>,
       <<"l", "e", "v", "y", " ", "t", "i", "c", "k", "e", "t">>,
       <<"s", "e", "a", "s", "o", "n", " ", "t", "i", "c", "k", "e", "t">> >>

\* for event in venue_events: event["team"] = team
RECURSIVE TagTeam(_, _)
TagTeam(events, team) ==
    IF events = <<>> THEN <<>>
    ELSE << [name |-> Head(events).name, date |-> Head(events).date,
             time |-> Head(events).time, venue |-> Head(events).venue,
             team |-> team] >> \o TagTeam(Tail(events), team)

\* df["date"] = pd.to_datetime(df["date"], errors="coerce")
RECURSIVE ParseDates(_)
ParseDates(rows) ==
    IF rows = <<>> THEN <<>>
    ELSE << [Head(rows) EXCEPT !.date = ToDatetime(@)] >> \o ParseDates(Tail(rows))

\* InWindow with the upper bound of the window left out
InWindowNoEnd(d, start_ts, end_ts) == d # NaT /\ d >= start_ts

\* (df["date"] >= start_ts) & (df["date"] <= end_ts); comparisons with NaT
\* are False.
InWindow(d, start_ts, end_ts) == d # NaT /\ d >= start_ts /\ d <= end_ts

\* IsExcluded without the .str.lower() of the name
IsExcludedCaseSensitive(name) ==
    \E k \in 1..Len(exclude_kw) : Contains(exclude_kw[k], name)

\* any(keyword in str(value) for keyword in exclude_kw) on the lowercased name
IsExcluded(name) ==
    \E k \in 1..Len(exclude_kw) : Contains(exclude_kw[k], Lower(name))

\* venues_df["Venue Name"].str.lower().str.strip().tolist()
ArenaNames(venues) == [i \in 1..Len(venues) |-> Strip(Lower(venues[i].VenueName))]

\* is_nba_arena with containment tested in one direction only
is_nba_arena_one_way(venue, nba_arena_names) ==
    LET normalized == Strip(Lower(venue))
    IN  \E i \in 1..Len(nba_arena_names) : Contains(normalized, nba_arena_names[i])

is_nba_arena(venue, nba_arena_names) ==
    LET normalized == Strip(Lower(venue))
    IN  \E i \in 1..Len(nba_arena_names) :
            \/ Contains(nba_arena_names[i], normalized)
            \/ Contains(normalized, nba_arena_names[i])

\* df[mask]: the rows for which the mask holds, in order
RECURSIVE FilterWindow(_, _, _)
FilterWindow(rows, start_ts, end_ts) ==
    IF rows = <<>> THEN <<>>
    ELSE (IF InWindow(Head(rows).date, start_ts, end_ts) THEN <<Head(rows)>> ELSE <<>>)
         \o FilterWindow(Tail(rows), start_ts, end_ts)

RECURSIVE FilterKeywords(_)
FilterKeywords(rows) ==
    IF rows = <<>> THEN <<>>
    ELSE (IF IsExcluded(Head(rows).name) THEN <<>> ELSE <<Head(rows)>>)
         \o FilterKeywords(Tail(rows))

\* a venue mask that tests a record against the arena of its own team only
RECURSIVE FilterArenaOwnTeam(_, _)
FilterArenaOwnTeam(rows, nba_arena_names) ==
    IF rows = <<>> THEN <<>>
    ELSE (IF is_nba_arena(Head(rows).venue,
                          << nba_arena_names[RowOf(Registry, Head(rows).team)] >>)
          THEN <<Head(rows)>> ELSE <<>>)
         \o FilterArenaOwnTeam(Tail(rows), nba_arena_names)

\* df[df["venue"].apply(lambda venue: is_nba_arena(venue, nba_arena_names))]
RECURSIVE FilterArena(_, _)
FilterArena(rows, nba_arena_names) ==
    IF rows = <<>> THEN <<>>
    ELSE (IF is_nba_arena(Head(rows).venue, nba_arena_names) THEN <<Head(rows)>> ELSE <<>>)
         \o FilterArena(Tail(rows), nba_arena_names)

\* subset=["team", "date", "time"]: the venue is not part of the key
DedupKeyNoVenue(r) == << r.team, r.date, r.time >>

DedupKey(r) == << r.team, r.date, r.time, r.venue >>

\* drop_duplicates() without the subset: only rows equal in every column
\* are duplicates
DropDuplicatesFullRow(rows) ==
    LET keep(i) == \A j \in 1..(i - 1) : rows[j] # rows[i]
        F[i \in 0..Len(rows)] ==
            IF i = 0 THEN <<>>
            ELSE IF keep(i) THEN Append(F[i - 1], rows[i]) ELSE F[i - 1]
    IN  F[Len(rows)]

\* df.drop_duplicates(subset=["team", "date", "time", "venue"]): keep="first"
DropDuplicates(rows) ==
    LET keep(i) == \A j \in 1..(i - 1) : DedupKey(rows[j]) # DedupKey(rows[i])
        F[i \in 0..Len(rows)] ==
            IF i = 0 THEN <<>>
            ELSE IF keep(i) THEN Append(F[i - 1], rows[i]) ELSE F[i - 1]
    IN  F[Len(rows)]

\* ordering of sort_values(["date"]): the venue is not a sort key
SortKeyLessDateOnly(a, b) == a.date < b.date

\* ordering of sort_values(["date", "venue"]): date first, then venue as str
SortKeyLess(a, b) ==
    \/ a.date < b.date
    \/ a.date = b.date /\ StrLess(a.venue, b.venue)

\* InsertSorted of a sort that is not stable: r goes in front of the rows
\* that tie with it
RECURSIVE InsertSortedUnstable(_, _)
InsertSortedUnstable(sorted, r) ==
    IF sorted = <<>> THEN <<r>>
    ELSE IF ~SortKeyLess(sorted[Len(sorted)], r)
         THEN Append(InsertSortedUnstable(SubSeq(sorted, 1, Len(sorted) - 1), r), sorted[Len(sorted)])
         ELSE Append(sorted, r)

\* One insertion of the stable sort: r goes behind every row that is not
\* greater than it.
RECURSIVE InsertSorted(_, _)
InsertSorted(sorted, r) ==
    IF sorted = <<>> THEN <<r>>
    ELSE IF SortKeyLess(r, sorted[Len(sorted)])
         THEN Append(InsertSorted(SubSeq(sorted, 1, Len(sorted) - 1), r), sorted[Len(sorted)])
         ELSE Append(sorted, r)

\* .sort_values(["date", "venue"]).reset_index(drop=True): pandas sorts on
\* several columns with a stable lexsort.
SortValues(rows) ==
    LET F[i \in 0..Len(rows)] ==
            IF i = 0 THEN <<>> ELSE InsertSorted(F[i - 1], rows[i])
    IN  F[Len(rows)]

\* deduplication on venues brought to lower case and stripped
DedupAndSortNormalized(rows) ==
    SortValues(DropDuplicates(
        [i \in 1..Len(rows) |-> [rows[i] EXCEPT !.venue = Strip(Lower(rows[i].venue))]]))

DedupAndSort(rows) == SortValues(DropDuplicates(rows))


\* ------------------------------------------------------------------------
\* State
\* ------------------------------------------------------------------------
VARIABLES
    script,       \* the cleaning entry point that runs
    venues_df,    \* the venue registry read from --venues-csv
    cache,        \* team -> its cache file in --cache-dir
    args,         \* [start, end]: --start-date and --end-date
    pc,           \* position of the cleaning run
    row,          \* index of the registry row the load loop is at
    all_events,   \* the list all_events
    df,           \* the DataFrame df
    output,       \* the file at --output: [exists, rows]
    log,          \* the printed lines, as [msg, n]
    raised,       \* the exception that ended the run, or "none"
    lacking       \* the column the input files lack, or "none"

cleanVars == << script, venues_df, cache, args, pc, row, all_events, df, output, log,
                raised, lacking >>

\* State of a validation run (validate.py main)
VARIABLES
    api_df,       \* the API events CSV, rows [venue, date, name]
    scr_df,       \* the scraper events CSV after the column rename
    vpc,          \* position of the validation run
    vi,           \* index into scraper_venues of the venue being analysed
    si,           \* index of the scr_v row the match loop is at
    api_v,        \* the API rows of the venue
    scr_v,        \* the scraped rows of the venue
    matched,      \* the list matched
    unmatched,    \* the list unmatched
    detail_rows,  \* the list detail_rows
    lines,        \* the per-venue lines of the report
    detail_out,   \* the file at --detail-out: [exists, rows]
    report_out,   \* the file at --report-out: [exists, rows]
    vraised,      \* the exception that ended the validation run, or "none"
    csv_lacking   \* the column an input CSV lacks, or "none"

validateVars == << api_df, scr_df, vpc, vi, si, api_v, scr_v, matched, unmatched,
                   detail_rows, lines, detail_out, report_out, vraised, csv_lacking >>

\* State of a run of the scraper runner (run_scrapers.py main)
VARIABLES
    spc,          \* position of the scraper run
    sidx,         \* index into SCRAPERS of the venue the loop is at
    all_results,  \* the list all_results
    summary,      \* the dict summary, as the sequence of its entries
    scraped_out,  \* the file at --output: [exists, rows]
    slog,         \* the lines printed by the save block
    sraised,      \* the exception that ended the run, or "none"
    drivers       \* the drivers setup_driver() created, as [venue, state]

scrapeVars == << spc, sidx, all_results, summary, scraped_out, slog, sraised, drivers >>

\* State of a call of safe_request (run_api.py)
VARIABLES
    rpc,          \* position of the call: "request", "returned" or "idle"
    retry_delay,  \* the local retry_delay, in seconds
    retries,      \* the local retries
    last_status,  \* the status code of the last answer, NoAnswer without one
    slept,        \* the argument of the last time.sleep, 0 before the first
    rresult,      \* the value returned: "response" or "None"; "pending" before
    attempts      \* the number of calls of requests.get so far, modulo 2

requestVars == << rpc, retry_delay, retries, last_status, slept, rresult, attempts >>

\* State of runs of collect_events (run_api.py) over one cache directory
VARIABLES
    cpc,            \* position of the run
    cargs,          \* [refresh_all, refresh_team, start, end] of the run
    api_cache,      \* team -> the cache file of the team: [exists, events]
    cache_at_start, \* api_cache as the run found it
    crow,           \* index of the registry row the venue loop is at
    range_idx,      \* index into date_ranges of the range being fetched
    venue_events,   \* the list venue_events of the team
    stack,          \* the frames of the nested calls of fetch_venue_range
    returned,       \* the list a call of fetch_venue_range has just returned
    http,           \* the teams an HTTP request was issued for in this run
    clog,           \* the lines written with tqdm.write, as [kind, team]
    collected,      \* the dict summary of the run, with the events per team
    craised,        \* the exception that ended the run, or "none"
    faults,         \* the teams of the requests of this run that safe_request
                    \* answered with None, one entry per request
    partial,        \* the teams whose cache file was last written by a fetch
                    \* with such a request
    runs            \* the number of the run

collectVars == << cpc, cargs, api_cache, cache_at_start, crow, range_idx, venue_events, stack,
                  returned, http, clog, collected, craised, faults, partial, runs >>

\* State of a request of the /schedule endpoint (backend/app.py,
\* backend/scheduler.py)
VARIABLES
    gpc,          \* position in generate_playoff_schedule
    east_teams,   \* the query parameter east_teams
    west_teams,   \* the query parameter west_teams
    min_days,     \* the query parameter min_days_between_games
    sched_events, \* the events map: venue name -> the dates of its events
    conf,         \* index of the conference being simulated
    rnd,          \* index into rounds
    round_teams,  \* the list round_teams
    matchup,      \* index of the matchup within the round
    sched_venue,  \* the local venue of the series, or finals_venue
    game,         \* index g of the game within the series
    sched_d,      \* the local d, in days after today
    round_start,  \* the local round_start
    game_dates,   \* the list game_dates, or finals_games
    schedule,     \* the list schedule
    graised       \* the exception that ended the request, or "none"

scheduleVars == << gpc, east_teams, west_teams, min_days, sched_events, conf, rnd, round_teams,
                   matchup, sched_venue, game, sched_d, round_start, game_dates, schedule, graised >>

vars == << cleanVars, validateVars, scrapeVars, requestVars, collectVars, scheduleVars >>

NoFile == [exists |-> FALSE, rows |-> <<>>]

Line(msg, n) == [msg |-> msg, n |-> n]

CleanInit ==
    /\ script \in Scripts
    /\ venues_df = Registry
    /\ args \in Windows
    /\ \E choice \in CacheChoices(Registry, 1, MaxEvents) :
          cache = [t \in TeamsOf(Registry) |-> choice[RowOf(Registry, t)]]
    /\ lacking = "none"
    /\ pc = "start"
    /\ row = 1
    /\ all_events = <<>>
    /\ df = <<>>
    /\ output = NoFile
    /\ log = <<>>
    /\ raised = "none"

\* The columns a stage of the cleaning run reads: of the registry, and of the
\* frame of cached events
RegistryColumns == {"Venue Name", "Team"}
EventColumns == {"date", "name", "time", "venue"}

\* A run of clean_events.py over input files that may lack one column: the
\* registry CSV, or every event of the caches.
CleanInitSchema ==
    /\ script = "clean_events"
    /\ venues_df = Registry
    /\ args \in { w \in Windows : w.start.d = 14 }
    /\ \E choice \in CacheChoices(Registry, 1, MaxSchemaEvents) :
          cache = [t \in TeamsOf(Registry) |-> choice[RowOf(Registry, t)]]
    /\ lacking \in RegistryColumns \cup EventColumns \cup {"none"}
    /\ pc = "start"
    /\ row = 1
    /\ all_events = <<>>
    /\ df = <<>>
    /\ output = NoFile
    /\ log = <<>>
    /\ raised = "none"

\* venues_df = pd.read_csv(...); nba_arena_names = venues_df["Venue Name"]...
ReadVenues ==
    /\ pc = "start"
    /\ IF lacking = "Venue Name"
       THEN raised' = "KeyError" /\ pc' = "done"
       ELSE raised' = raised /\ pc' = "load"
    /\ UNCHANGED << script, venues_df, cache, args, lacking, row, all_events, df, output, log >>
    /\ UNCHANGED << validateVars, scrapeVars, requestVars, collectVars, scheduleVars >>

\* ------------------------------------------------------------------------
\* The cleaning run, stage by stage
\* ------------------------------------------------------------------------
\* LoadTeam with `break` in the place of `continue`: the load loop stops at
\* the first team without a cache file
LoadTeamStopAtMissing ==
    /\ pc = "load"
    /\ row <= Len(venues_df)
    /\ LET team == venues_df[row].Team
       IN  IF ~cache[team].exists
           THEN /\ log' = Append(log, Line("MISSING cache", row))
                /\ all_events' = all_events
                /\ row' = Len(venues_df) + 1
           ELSE /\ all_events' = all_events \o TagTeam(cache[team].events, team)
                /\ log' = log
                /\ row' = row + 1
    /\ UNCHANGED << script, venues_df, cache, args, lacking, pc, df, output, raised >>
    /\ UNCHANGED << validateVars, scrapeVars, requestVars, collectVars, scheduleVars >>

\* One iteration of `for _, row in venues_df.iterrows()`: a team without a
\* cache file is reported and skipped, the events of the others are tagged
\* with the team and appended.
LoadTeam ==
    /\ pc = "load"
    /\ row <= Len(venues_df)
    /\ IF lacking = "Team"
       THEN /\ raised' = "KeyError"
            /\ pc' = "done"
            /\ UNCHANGED << row, all_events, log >>
       ELSE /\ LET team == venues_df[row].Team
               IN  IF ~cache[team].exists
                   THEN /\ log' = Append(log, Line("MISSING cache", row))
                        /\ all_events' = all_events
                   ELSE /\ all_events' = all_events \o TagTeam(cache[team].events, team)
                        /\ log' = log
            /\ row' = row + 1
            /\ UNCHANGED << pc, raised >>
    /\ UNCHANGED << script, venues_df, cache, args, lacking, df, output >>
    /\ UNCHANGED << validateVars, scrapeVars, requestVars, collectVars, scheduleVars >>

\* df = pd.DataFrame(all_events); clean_events.py returns when df.empty, the
\* older script goes on to df["date"], which an empty frame does not have.
BuildFrame ==
    /\ pc = "load"
    /\ row > Len(venues_df)
    /\ df' = all_events
    /\ IF all_events # <<>>
       THEN /\ pc' = "date"
            /\ log' = Append(log, Line("Raw events from cache", Len(all_events)))
            /\ raised' = raised
       ELSE IF script = "legacy"
       THEN /\ pc' = "done"
            /\ log' = Append(log, Line("Raw events from cache", 0))
            /\ raised' = "KeyError"
       ELSE /\ pc' = "done"
            /\ log' = Append(Append(log, Line("Raw events from cache", 0)),
                             Line("No cached events found. Nothing to save.", 0))
            /\ raised' = raised
    /\ UNCHANGED << script, venues_df, cache, args, lacking, row, all_events, output >>
    /\ UNCHANGED << validateVars, scrapeVars, requestVars, collectVars, scheduleVars >>

\* to_datetime(errors="coerce") and the window filter
DateFilter ==
    /\ pc = "date"
    /\ IF lacking = "date"
       THEN /\ raised' = "KeyError"
            /\ pc' = "done"
            /\ UNCHANGED << df, log >>
       ELSE /\ df' = FilterWindow(ParseDates(df), Timestamp(args.start), Timestamp(args.end))
            /\ log' = Append(log, Line("After date filter", Len(df')))
            /\ pc' = "keyword"
            /\ raised' = raised
    /\ UNCHANGED << script, venues_df, cache, args, lacking, row, all_events, output >>
    /\ UNCHANGED << validateVars, scrapeVars, requestVars, collectVars, scheduleVars >>

\* KeywordFilter with the mask in a try/except that skips the stage when the
\* frame has no name column
KeywordFilterSwallow ==
    /\ pc = "keyword"
    /\ df' = IF lacking = "name" THEN df ELSE FilterKeywords(df)
    /\ log' = Append(log, Line("After keyword filter", Len(df')))
    /\ pc' = "dedup"
    /\ UNCHANGED << script, venues_df, cache, args, lacking, row, all_events, output, raised >>
    /\ UNCHANGED << validateVars, scrapeVars, requestVars, collectVars, scheduleVars >>

\* the keyword mask over df["name"]
KeywordFilter ==
    /\ pc = "keyword"
    /\ IF lacking = "name"
       THEN /\ raised' = "KeyError"
            /\ pc' = "done"
            /\ UNCHANGED << df, log >>
       ELSE /\ df' = FilterKeywords(df)
            /\ log' = Append(log, Line("After keyword filter", Len(df')))
            /\ pc' = "dedup"
            /\ raised' = raised
    /\ UNCHANGED << script, venues_df, cache, args, lacking, row, all_events, output >>
    /\ UNCHANGED << validateVars, scrapeVars, requestVars, collectVars, scheduleVars >>

\* a deduplication stage that also saves its intermediate frame to the output
DeduplicateAndSave ==
    /\ pc = "dedup"
    /\ df' = DedupAndSort(df)
    /\ output' = [exists |-> TRUE, rows |-> df']
    /\ log' = Append(log, Line("After dedup", Len(df')))
    /\ pc' = "venue"
    /\ UNCHANGED << script, venues_df, cache, args, lacking, row, all_events, raised >>
    /\ UNCHANGED << validateVars, scrapeVars, requestVars, collectVars, scheduleVars >>

\* drop_duplicates(subset=[...]) and sort_values([...]) over the key columns
Deduplicate ==
    /\ pc = "dedup"
    /\ IF lacking \in {"time", "venue"}
       THEN /\ raised' = "KeyError"
            /\ pc' = "done"
            /\ UNCHANGED << df, log >>
       ELSE /\ df' = DedupAndSort(df)
            /\ log' = Append(log, Line("After dedup", Len(df')))
            /\ pc' = "venue"
            /\ raised' = raised
    /\ UNCHANGED << script, venues_df, cache, args, lacking, row, all_events, output >>
    /\ UNCHANGED << validateVars, scrapeVars, requestVars, collectVars, scheduleVars >>

SameVenueFilter ==
    /\ pc = "venue"
    /\ df' = FilterArena(df, ArenaNames(venues_df))
    /\ log' = Append(log, Line("After same-venue filter", Len(df')))
    /\ pc' = "write"
    /\ UNCHANGED << script, venues_df, cache, args, lacking, row, all_events, output, raised >>
    /\ UNCHANGED << validateVars, scrapeVars, requestVars, collectVars, scheduleVars >>

\* df.to_csv(args.output, index=False)
SaveCsv ==
    /\ pc = "write"
    /\ output' = [exists |-> TRUE, rows |-> df]
    /\ log' = Append(log, Line("Saved events", Len(df)))
    /\ pc' = "done"
    /\ UNCHANGED << script, venues_df, cache, args, lacking, row, all_events, df, raised >>
    /\ UNCHANGED << validateVars, scrapeVars, requestVars, collectVars, scheduleVars >>

CleanNext ==
    \/ ReadVenues
    \/ LoadTeam
    \/ BuildFrame
    \/ DateFilter
    \/ KeywordFilter
    \/ Deduplicate
    \/ SameVenueFilter
    \/ SaveCsv

\* No cleaning run takes place.
CleanIdle ==
    /\ script = "clean_events"
    /\ venues_df = Registry
    /\ args \in { w \in Windows : w.start.d = 14 }
    /\ cache = [t \in TeamsOf(Registry) |-> MissingFile]
    /\ pc = "idle"
    /\ row = 1
    /\ all_events = <<>>
    /\ df = <<>>
    /\ output = NoFile
    /\ log = <<>>
    /\ raised = "none"
    /\ lacking = "none"


\* ------------------------------------------------------------------------
\* The validation run (validate.py main)
\* ------------------------------------------------------------------------
\* Bounds: rows of the API events CSV and of the scraper events CSV.
MaxApi == 2
MaxScraped == 2

VenueStateFarm == <<"S", "t", "a", "t", "e", " ", "F", "a", "r", "m", " ", "A", "r", "e", "n", "a">>
VenueSpectrum == <<"S", "p", "e", "c", "t", "r", "u", "m", " ", "C", "e", "n", "t", "e", "r">>
VenueUnited == <<"U", "n", "i", "t", "e", "d", " ", "C", "e", "n", "t", "e", "r">>
VenueTDUpper == <<"T", "D", " ", "G", "A", "R", "D", "E", "N">>
VenueBoth == <<"T", "D", " ", "G", "a", "r", "d", "e", "n", " ", "-", " ", "B", "a", "r", "c", "l", "a", "y", "s", " ", "C", "e", "n", "t", "e", "r">>
NameBostonKnicks == <<"B", "o", "s", "t", "o", "n", " ", "C", "e", "l", "t", "i", "c", "s", " ", "v", "s", " ", "K", "n", "i", "c", "k", "s">>
NameBostonNewYork == <<"b", "o", "s", "t", "o", "n", " ", "c", "e", "l", "t", "i", "c", "s", " ", "v", "s", " ", "n", "e", "w", " ", "y", "o", "r", "k", " ", "k", "n", "i", "c", "k", "s">>
NameBeyonce == <<"B", "e", "y", "o", "n", "c", "e_acute">>
NameBeyonceTour == <<"B", "e", "y", "o", "n", "c", "e", " ", "W", "o", "r", "l", "d", " ", "T", "o", "u", "r">>
NameKissingBooth == <<"K", "i", "s", "s", "i", "n", "g", " ", "B", "o", "o", "t", "h">>
NameBlank == <<" ">>

scraper_venues == << VenueStateFarm, VenueTD, VenueBarclays, VenueSpectrum >>

\* unicodedata.normalize("NFKD", ...): canonical decomposition of a character
Decompose(c) == IF c = "e_acute" THEN << "e", "U+0301" >> ELSE << c >>

\* unicodedata.combining(character)
IsCombining(c) == c = "U+0301"

RECURSIVE NFKD(_)
NFKD(s) == IF s = <<>> THEN <<>> ELSE Decompose(Head(s)) \o NFKD(Tail(s))

RECURSIVE DropCombining(_)
DropCombining(s) ==
    IF s = <<>> THEN <<>>
    ELSE (IF IsCombining(Head(s)) THEN <<>> ELSE <<Head(s)>>) \o DropCombining(Tail(s))

normalize(value) == DropCombining(NFKD(Strip(Lower(value))))

Day(m, d) == Timestamp([y |-> 2026, m |-> m, d |-> d])

CsvRow(v, d, n) == [venue |-> v, date |-> d, name |-> n]

\* The rows the scraper events CSV may hold.
ScrapedPool ==
    { CsvRow(VenueTD, Day(4, 20), NameBostonKnicks),
      CsvRow(VenueTDUpper, Day(4, 20), NameKiss),
      CsvRow(VenueBarclays, Day(4, 30), NameBeyonce),
      CsvRow(VenueUnited, Day(4, 20), NameKiss),
      CsvRow(VenueTD, Day(4, 22), NameBlank),
      CsvRow(VenueBoth, Day(4, 21), NameKiss) }

\* The rows the API events CSV may hold.
ApiPool ==
    { CsvRow(VenueTD, Day(4, 21), NameBostonNewYork),
      CsvRow(VenueTD, Day(4, 22), NameBlank),
      CsvRow(VenueBarclays, Day(5, 1), NameBeyonceTour),
      CsvRow(VenueTD, Day(4, 19), NameKiss),
      CsvRow(VenueBarclays, Day(4, 20), NameBostonKnicks),
      CsvRow(VenueTDPlaza, Day(4, 19), NameKissingBooth) }

\* df[df["venue"].str.contains(venue_name, case=False, na=False)]
RECURSIVE RowsAtVenue(_, _)
RowsAtVenue(rows, venue_name) ==
    IF rows = <<>> THEN <<>>
    ELSE (IF Contains(Lower(venue_name), Lower(Head(rows).venue)) THEN <<Head(rows)>> ELSE <<>>)
         \o RowsAtVenue(Tail(rows), venue_name)

\* api_by_date.setdefault(event_date, []).append(normalize(row["name"]))
RECURSIVE ApiByDate(_)
ApiByDate(rows) ==
    IF rows = <<>> THEN << >>
    ELSE LET rest == ApiByDate(SubSeq(rows, 1, Len(rows) - 1))
             last == rows[Len(rows)]
         IN  IF last.date \in DOMAIN rest
             THEN [rest EXCEPT ![last.date] = Append(@, normalize(last.name))]
             ELSE rest @@ (last.date :> << normalize(last.name) >>)

\* api_by_date.get(check_date, [])
GetNames(api_by_date, check_date) ==
    IF check_date \in DOMAIN api_by_date THEN api_by_date[check_date] ELSE <<>>

\* the condition of the if statement of validate.py lines 99-103
NamesMatch(sname, aname) ==
    LET short_s == Slice(sname, 6)
        short_a == Slice(aname, 6)
    IN  \/ short_s # <<>> /\ short_a # <<>> /\ short_s = short_a
        \/ Len(sname) > 4 /\ Contains(Slice(sname, 8), aname)
        \/ Len(aname) > 4 /\ Contains(Slice(aname, 8), sname)

\* the deltas without the day before
DeltasNoDayBefore == << 0, 1 >>

\* for delta in [0, 1, -1]
Deltas == << 0, 1, -1 >>

\* the value of found after the loops over delta and api_names
Found(api_by_date, sdate, sname) ==
    \E k \in 1..Len(Deltas) :
        LET api_names == GetNames(api_by_date, sdate + Deltas[k])
        IN  \E n \in 1..Len(api_names) : NamesMatch(sname, api_names[n])

\* pct = len(matched) / len(scr_v) * 100, as the fraction num/den
Pct(n_matched, n_scraped) == [num |-> n_matched * 100, den |-> n_scraped]

\* f"{pct:.0f}": rounding to the nearest integer, halves to the even one
Format0f(p) ==
    LET q == p.num \div p.den
        r == p.num % p.den
    IN  IF 2 * r > p.den \/ (2 * r = p.den /\ q % 2 = 1) THEN q + 1 ELSE q

\* the API rows dated more than a day away from every scraped row
RECURSIVE ApiOnlyOutsideTolerance(_, _)
ApiOnlyOutsideTolerance(api_rows, scr_rows) ==
    IF api_rows = <<>> THEN <<>>
    ELSE (IF \E j \in 1..Len(scr_rows) : scr_rows[j].date - Head(api_rows).date \in {-1, 0, 1}
          THEN <<>> ELSE <<Head(api_rows)>>)
         \o ApiOnlyOutsideTolerance(Tail(api_rows), scr_rows)

\* api_v[~api_v["date"].dt.date.isin(scr_dates)]
RECURSIVE ApiOnly(_, _)
ApiOnly(api_rows, scr_rows) ==
    IF api_rows = <<>> THEN <<>>
    ELSE (IF \E j \in 1..Len(scr_rows) : scr_rows[j].date = Head(api_rows).date
          THEN <<>> ELSE <<Head(api_rows)>>)
         \o ApiOnly(Tail(api_rows), scr_rows)

ValidateInit ==
    /\ api_df \in SeqsUpTo(ApiPool, MaxApi)
    /\ scr_df \in SeqsUpTo(ScrapedPool, MaxScraped)
    /\ csv_lacking = "none"
    /\ vpc = "read"
    /\ vi = 1
    /\ si = 1
    /\ api_v = <<>>
    /\ scr_v = <<>>
    /\ matched = <<>>
    /\ unmatched = <<>>
    /\ detail_rows = <<>>
    /\ lines = <<>>
    /\ detail_out = NoFile
    /\ report_out = NoFile
    /\ vraised = "none"

\* The columns validate.py reads by name before its venue loop has selected
\* any row: the parse_dates columns and the venue columns of the two CSVs
CsvColumns == {"api date", "scraper Date", "api venue", "scraper Venue"}

\* A run of validate.py over CSV files one of which may lack a column
ValidateInitSchema ==
    /\ api_df \in SeqsUpTo(ApiPool, MaxSchemaEvents)
    /\ scr_df \in SeqsUpTo(ScrapedPool, MaxSchemaEvents)
    /\ csv_lacking \in CsvColumns \cup {"none"}
    /\ vpc = "read"
    /\ vi = 1
    /\ si = 1
    /\ api_v = <<>>
    /\ scr_v = <<>>
    /\ matched = <<>>
    /\ unmatched = <<>>
    /\ detail_rows = <<>>
    /\ lines = <<>>
    /\ detail_out = NoFile
    /\ report_out = NoFile
    /\ vraised = "none"

\* No validation run takes place.
ValidateIdle ==
    /\ api_df = <<>>
    /\ scr_df = <<>>
    /\ csv_lacking = "none"
    /\ report_out = NoFile
    /\ vraised = "none"
    /\ vpc = "idle"
    /\ vi = 1
    /\ si = 1
    /\ api_v = <<>>
    /\ scr_v = <<>>
    /\ matched = <<>>
    /\ unmatched = <<>>
    /\ detail_rows = <<>>
    /\ lines = <<>>
    /\ detail_out = NoFile

\* pd.read_csv(args.api_csv, parse_dates=["date"]) and
\* pd.read_csv(args.scraper_csv, parse_dates=["Date"]): read_csv raises a
\* ValueError for a parse_dates column the file does not have.
ReadCsvs ==
    /\ vpc = "read"
    /\ IF csv_lacking \in {"api date", "scraper Date"}
       THEN vraised' = "ValueError" /\ vpc' = "done"
       ELSE vraised' = vraised /\ vpc' = "venue"
    /\ UNCHANGED << api_df, scr_df, csv_lacking, vi, si, api_v, scr_v, matched, unmatched,
                    detail_rows, lines, detail_out, report_out >>
    /\ UNCHANGED << cleanVars, scrapeVars, requestVars, collectVars, scheduleVars >>

\* VenueBegin with the lists matched and unmatched created once, before the
\* venue loop, instead of once per venue
VenueBeginNoReset ==
    /\ vpc = "venue"
    /\ vi <= Len(scraper_venues)
    /\ api_v' = RowsAtVenue(api_df, scraper_venues[vi])
    /\ scr_v' = RowsAtVenue(scr_df, scraper_venues[vi])
    /\ matched' = matched
    /\ unmatched' = unmatched
    /\ si' = 1
    /\ IF scr_v' = <<>>
       THEN /\ lines' = Append(lines, [venue |-> scraper_venues[vi], kind |-> "skipped",
                                       api |-> Len(api_v'), scraped |-> Len(scr_v')])
            /\ vi' = vi + 1
            /\ vpc' = "venue"
       ELSE /\ lines' = lines
            /\ vi' = vi
            /\ vpc' = "rows"
    /\ UNCHANGED << api_df, scr_df, csv_lacking, detail_rows, detail_out, report_out, vraised >>
    /\ UNCHANGED << cleanVars, scrapeVars, requestVars, collectVars, scheduleVars >>

\* Top of `for venue_name in scraper_venues`: select the rows of the venue;
\* a venue without scraped rows is reported and skipped.
VenueBegin ==
    /\ vpc = "venue"
    /\ vi <= Len(scraper_venues)
    /\ IF csv_lacking \in {"api venue", "scraper Venue"}
       THEN /\ vraised' = "KeyError"
            /\ vpc' = "done"
            /\ UNCHANGED << api_v, scr_v, matched, unmatched, si, lines, vi >>
       ELSE /\ api_v' = RowsAtVenue(api_df, scraper_venues[vi])
            /\ scr_v' = RowsAtVenue(scr_df, scraper_venues[vi])
            /\ matched' = <<>>
            /\ unmatched' = <<>>
            /\ si' = 1
            /\ vraised' = vraised
            /\ IF scr_v' = <<>>
               THEN /\ lines' = Append(lines, [venue |-> scraper_venues[vi], kind |-> "skipped",
                                               api |-> Len(api_v'), scraped |-> Len(scr_v')])
                    /\ vi' = vi + 1
                    /\ vpc' = "venue"
               ELSE /\ lines' = lines
                    /\ vi' = vi
                    /\ vpc' = "rows"
    /\ UNCHANGED << api_df, scr_df, csv_lacking, detail_rows, detail_out, report_out >>
    /\ UNCHANGED << cleanVars, scrapeVars, requestVars, collectVars, scheduleVars >>

\* MatchRow with the detail row appended only for a matched event
MatchRowDetailWhenFound ==
    /\ vpc = "rows"
    /\ si <= Len(scr_v)
    /\ LET srow == scr_v[si]
           found == Found(ApiByDate(api_v), srow.date, normalize(srow.name))
       IN  /\ IF found
              THEN matched' = Append(matched, srow) /\ unmatched' = unmatched
              ELSE unmatched' = Append(unmatched, srow) /\ matched' = matched
           /\ detail_rows' =
                  IF found
                  THEN Append(detail_rows,
                              [venue |-> scraper_venues[vi], date |-> srow.date,
                               scraper_name |-> srow.name, matched_in_api |-> found])
                  ELSE detail_rows
    /\ si' = si + 1
    /\ UNCHANGED << api_df, scr_df, csv_lacking, vpc, vi, api_v, scr_v, lines, detail_out, report_out, vraised >>
    /\ UNCHANGED << cleanVars, scrapeVars, requestVars, collectVars, scheduleVars >>

\* One iteration of `for _, srow in scr_v.iterrows()`
MatchRow ==
    /\ vpc = "rows"
    /\ si <= Len(scr_v)
    /\ LET srow == scr_v[si]
           found == Found(ApiByDate(api_v), srow.date, normalize(srow.name))
       IN  /\ IF found
              THEN matched' = Append(matched, srow) /\ unmatched' = unmatched
              ELSE unmatched' = Append(unmatched, srow) /\ matched' = matched
           /\ detail_rows' = Append(detail_rows,
                                    [venue |-> scraper_venues[vi], date |-> srow.date,
                                     scraper_name |-> srow.name, matched_in_api |-> found])
    /\ si' = si + 1
    /\ UNCHANGED << api_df, scr_df, csv_lacking, vpc, vi, api_v, scr_v, lines, detail_out, report_out, vraised >>
    /\ UNCHANGED << cleanVars, scrapeVars, requestVars, collectVars, scheduleVars >>

\* After the match loop: the coverage line and the API-only events
VenueEnd ==
    /\ vpc = "rows"
    /\ si > Len(scr_v)
    /\ LET pct == IF Len(scr_v) > 0 THEN Pct(Len(matched), Len(scr_v)) ELSE Pct(0, 1)
       IN  lines' = Append(lines, [venue |-> scraper_venues[vi], kind |-> "coverage",
                                   api |-> Len(api_v), scraped |-> Len(scr_v),
                                   matched |-> Len(matched), pct |-> pct,
                                   shown |-> Format0f(pct),
                                   api_only |-> ApiOnly(api_v, scr_v)])
    /\ vi' = vi + 1
    /\ vpc' = "venue"
    /\ UNCHANGED << api_df, scr_df, csv_lacking, si, api_v, scr_v, matched, unmatched, detail_rows, detail_out, report_out, vraised >>
    /\ UNCHANGED << cleanVars, scrapeVars, requestVars, collectVars, scheduleVars >>

\* After the venue loop: the report is written, and the detail CSV when
\* there are detail rows.
WriteOutputs ==
    /\ vpc = "venue"
    /\ vi > Len(scraper_venues)
    /\ report_out' = [exists |-> TRUE, rows |-> lines]
    /\ detail_out' = IF detail_rows # <<>> THEN [exists |-> TRUE, rows |-> detail_rows]
                     ELSE detail_out
    /\ vpc' = "done"
    /\ UNCHANGED << api_df, scr_df, csv_lacking, vi, si, api_v, scr_v, matched, unmatched,
                    detail_rows, lines, vraised >>
    /\ UNCHANGED << cleanVars, scrapeVars, requestVars, collectVars, scheduleVars >>

ValidateNext ==
    \/ ReadCsvs
    \/ VenueBegin
    \/ MatchRow
    \/ VenueEnd
    \/ WriteOutputs

\* ------------------------------------------------------------------------
\* The scraper runner (run_scrapers.py main)
\* ------------------------------------------------------------------------
\* Rows of all_results over the whole run
MaxScrapedRows == 3

TimeTBA == <<"T", "B", "A">>

\* SCRAPERS: the venue names, in order
SCRAPERS == << VenueStateFarm, VenueTD, VenueBarclays, VenueSpectrum, VenueUnited >>

\* An event dict a scraper appends; Date is a "%Y-%m-%d" string of strftime
ScrapedEvent(venue_name, title, m, d, etime) ==
    [Venue |-> venue_name, Title |-> title, Date |-> [y |-> 2026, m |-> m, d |-> d],
     Time |-> etime]

\* The events the scraper of a venue may collect; scrape_united_center
\* collects none
EventsAt(venue_name) ==
    IF venue_name = VenueUnited THEN {}
    ELSE { ScrapedEvent(venue_name, NameGame, 4, 20, Time19),
           ScrapedEvent(venue_name, NameGame, 4, 20, TimeTBA),
           ScrapedEvent(venue_name, NameKiss, 4, 14, Time19) }

\* df["Date"] = pd.to_datetime(df["Date"])
ParseScrapedDates(rows) ==
    [i \in 1..Len(rows) |-> [rows[i] EXCEPT !.Date = Timestamp(rows[i].Date)]]

\* subset=["Venue", "Title", "Date", "Time"]: the time is part of the key
ScrapedDedupKeyWithTime(r) == << r.Venue, r.Title, r.Date, r.Time >>

ScrapedDedupKey(r) == << r.Venue, r.Title, r.Date >>

\* df.drop_duplicates(subset=["Venue", "Title", "Date"]): keep="first"
ScrapedDropDuplicates(rows) ==
    LET keep(i) == \A j \in 1..(i - 1) : ScrapedDedupKey(rows[j]) # ScrapedDedupKey(rows[i])
        F[i \in 0..Len(rows)] ==
            IF i = 0 THEN <<>>
            ELSE IF keep(i) THEN Append(F[i - 1], rows[i]) ELSE F[i - 1]
    IN  F[Len(rows)]

\* ordering of sort_values(["Date", "Venue"])
ScrapedKeyLess(a, b) ==
    \/ a.Date < b.Date
    \/ a.Date = b.Date /\ StrLess(a.Venue, b.Venue)

RECURSIVE ScrapedInsertSorted(_, _)
ScrapedInsertSorted(sorted, r) ==
    IF sorted = <<>> THEN <<r>>
    ELSE IF ScrapedKeyLess(r, sorted[Len(sorted)])
         THEN Append(ScrapedInsertSorted(SubSeq(sorted, 1, Len(sorted) - 1), r),
                     sorted[Len(sorted)])
         ELSE Append(sorted, r)

\* .sort_values(["Date", "Venue"]).reset_index(drop=True)
ScrapedSortValues(rows) ==
    LET F[i \in 0..Len(rows)] ==
            IF i = 0 THEN <<>> ELSE ScrapedInsertSorted(F[i - 1], rows[i])
    IN  F[Len(rows)]

ScrapeInit ==
    /\ spc = "scrape"
    /\ sidx = 1
    /\ all_results = <<>>
    /\ summary = <<>>
    /\ scraped_out = NoFile
    /\ slog = <<>>
    /\ sraised = "none"
    /\ drivers = <<>>

\* setup_driver() raises: the call is outside the try statement of the loop
SetupDriverFails ==
    /\ spc = "scrape"
    /\ sidx <= Len(SCRAPERS)
    /\ sraised' = "WebDriverException"
    /\ spc' = "done"
    /\ UNCHANGED << sidx, all_results, summary, scraped_out, slog, drivers >>
    /\ UNCHANGED << cleanVars, validateVars, requestVars, collectVars, scheduleVars >>

\* The outcomes of the finally clause: driver.quit() returns, or raises an
\* exception that `except Exception: pass` drops
QuitOutcomes == {"quit", "quit raised"}

\* One iteration of `for venue_name, url, fn in SCRAPERS` in which fn
\* returns its events
ScraperReturns ==
    /\ spc = "scrape"
    /\ sidx <= Len(SCRAPERS)
    /\ \E q \in QuitOutcomes :
          drivers' = Append(drivers, [venue |-> SCRAPERS[sidx], state |-> q])
    /\ \E events \in SeqsUpTo(EventsAt(SCRAPERS[sidx]), MaxScrapedRows - Len(all_results)) :
          /\ all_results' = all_results \o events
          /\ summary' = Append(summary, [venue |-> SCRAPERS[sidx], status |-> "OK",
                                         count |-> Len(events)])
    /\ sidx' = sidx + 1
    /\ UNCHANGED << spc, scraped_out, slog, sraised >>
    /\ UNCHANGED << cleanVars, validateVars, requestVars, collectVars, scheduleVars >>

\* ScraperRaises without the except clause: the exception of fn leaves main
\* after the finally clause
ScraperRaisesAborts ==
    /\ spc = "scrape"
    /\ sidx <= Len(SCRAPERS)
    /\ SCRAPERS[sidx] # VenueUnited
    /\ \E q \in QuitOutcomes :
          drivers' = Append(drivers, [venue |-> SCRAPERS[sidx], state |-> q])
    /\ sraised' = "Exception"
    /\ spc' = "done"
    /\ UNCHANGED << sidx, summary, all_results, scraped_out, slog >>
    /\ UNCHANGED << cleanVars, validateVars, requestVars, collectVars, scheduleVars >>

\* One iteration in which fn raises: the except clause records the failure
ScraperRaises ==
    /\ spc = "scrape"
    /\ sidx <= Len(SCRAPERS)
    /\ SCRAPERS[sidx] # VenueUnited
    /\ \E q \in QuitOutcomes :
          drivers' = Append(drivers, [venue |-> SCRAPERS[sidx], state |-> q])
    /\ summary' = Append(summary, [venue |-> SCRAPERS[sidx], status |-> "FAILED", count |-> 0])
    /\ sidx' = sidx + 1
    /\ UNCHANGED << spc, all_results, scraped_out, slog, sraised >>
    /\ UNCHANGED << cleanVars, validateVars, requestVars, collectVars, scheduleVars >>

\* The save block after the loop
SaveScraped ==
    /\ spc = "scrape"
    /\ sidx > Len(SCRAPERS)
    /\ IF all_results # <<>>
       THEN LET sdf == ScrapedSortValues(ScrapedDropDuplicates(ParseScrapedDates(all_results)))
            IN  /\ scraped_out' = [exists |-> TRUE, rows |-> sdf]
                /\ slog' = Append(slog, Line("Saved events", Len(sdf)))
       ELSE /\ scraped_out' = scraped_out
            /\ slog' = Append(slog, Line("No events collected.", 0))
    /\ spc' = "done"
    /\ UNCHANGED << sidx, all_results, summary, sraised, drivers >>
    /\ UNCHANGED << cleanVars, validateVars, requestVars, collectVars, scheduleVars >>

ScrapeNext ==
    \/ SetupDriverFails
    \/ ScraperReturns
    \/ ScraperRaises
    \/ SaveScraped

\* No scraper run takes place.
ScrapeIdle ==
    /\ spc = "idle"
    /\ sidx = 1
    /\ all_results = <<>>
    /\ summary = <<>>
    /\ scraped_out = NoFile
    /\ slog = <<>>
    /\ sraised = "none"
    /\ drivers = <<>>


\* ------------------------------------------------------------------------
\* The programs of the API side and of the backend, at rest
\* ------------------------------------------------------------------------
\* The value of last_status while no answer was received: before the first
\* attempt, and when requests.get raised.
NoAnswer == 0

RequestIdle ==
    /\ rpc = "idle"
    /\ retry_delay = 0
    /\ retries = 0
    /\ last_status = NoAnswer
    /\ slept = 0
    /\ rresult = "pending"
    /\ attempts = 0

CollectIdle ==
    /\ cpc = "idle"
    /\ cargs = <<>>
    /\ api_cache = <<>>
    /\ cache_at_start = <<>>
    /\ crow = 0
    /\ range_idx = 0
    /\ venue_events = <<>>
    /\ stack = <<>>
    /\ returned = <<>>
    /\ http = {}
    /\ clog = <<>>
    /\ collected = <<>>
    /\ craised = "none"
    /\ faults = <<>>
    /\ partial = {}
    /\ runs = 0

ScheduleIdle ==
    /\ gpc = "idle"
    /\ east_teams = <<>>
    /\ west_teams = <<>>
    /\ min_days = 0
    /\ sched_events = <<>>
    /\ conf = 0
    /\ rnd = 0
    /\ round_teams = <<>>
    /\ matchup = 0
    /\ sched_venue = "None"
    /\ game = 0
    /\ sched_d = 0
    /\ round_start = 0
    /\ game_dates = <<>>
    /\ schedule = <<>>
    /\ graised = "none"

\* ------------------------------------------------------------------------
\* safe_request (run_api.py): one HTTP GET with retries
\* ------------------------------------------------------------------------
\* The status codes the server answers with: success, rate limit, the three
\* retried server errors, and two codes of the remaining kind.
StatusCodes == { 200, 429, 502, 503, 504, 404, 500 }

\* The defaults of the parameters retry_delay and max_retries; the one call
\* of safe_request passes neither.
RetryDelayDefault == 2
MaxRetriesDefault == 6

\* The cap of the delay after a 429 answer
RetryDelayCap == 30

Min(a, b) == IF a <= b THEN a ELSE b

RequestInit ==
    /\ rpc = "request"
    /\ retry_delay = RetryDelayDefault
    /\ retries = 0
    /\ last_status = NoAnswer
    /\ slept = 0
    /\ rresult = "pending"
    /\ attempts = 0

\* requests.get raises a RequestException: the call returns None.
RequestError ==
    /\ rpc = "request"
    /\ attempts' = (attempts + 1) % 2
    /\ rpc' = "returned"
    /\ rresult' = "None"
    /\ last_status' = NoAnswer
    /\ UNCHANGED << retry_delay, retries, slept >>
    /\ UNCHANGED << cleanVars, validateVars, scrapeVars, collectVars, scheduleVars >>

\* The server answers 429: sleep retry_delay, double it up to the cap and
\* try again.
Answer429 ==
    /\ rpc = "request"
    /\ attempts' = (attempts + 1) % 2
    /\ last_status' = 429
    /\ slept' = retry_delay
    /\ retry_delay' = Min(retry_delay * 2, RetryDelayCap)
    /\ UNCHANGED << rpc, retries, rresult >>
    /\ UNCHANGED << cleanVars, validateVars, scrapeVars, collectVars, scheduleVars >>

\* The server answers 502, 503 or 504: give up once max_retries retries
\* were made, else sleep retry_delay and try again.
AnswerServerError ==
    /\ rpc = "request"
    /\ attempts' = (attempts + 1) % 2
    /\ \E status \in { 502, 503, 504 } :
          /\ last_status' = status
          /\ IF retries >= MaxRetriesDefault
             THEN /\ rpc' = "returned"
                  /\ rresult' = "None"
                  /\ UNCHANGED << retry_delay, retries, slept >>
             ELSE /\ slept' = retry_delay
                  /\ retries' = retries + 1
                  /\ UNCHANGED << rpc, retry_delay, rresult >>
    /\ UNCHANGED << cleanVars, validateVars, scrapeVars, collectVars, scheduleVars >>

\* The server answers with another code than 200: the call returns None.
AnswerOther ==
    /\ rpc = "request"
    /\ attempts' = (attempts + 1) % 2
    /\ \E status \in StatusCodes \ { 200, 429, 502, 503, 504 } :
          last_status' = status
    /\ rpc' = "returned"
    /\ rresult' = "None"
    /\ UNCHANGED << retry_delay, retries, slept >>
    /\ UNCHANGED << cleanVars, validateVars, scrapeVars, collectVars, scheduleVars >>

\* The server answers 200: the call returns the response.
Answer200 ==
    /\ rpc = "request"
    /\ attempts' = (attempts + 1) % 2
    /\ last_status' = 200
    /\ rpc' = "returned"
    /\ rresult' = "response"
    /\ UNCHANGED << retry_delay, retries, slept >>
    /\ UNCHANGED << cleanVars, validateVars, scrapeVars, collectVars, scheduleVars >>

RequestNext ==
    \/ RequestError
    \/ Answer429
    \/ AnswerServerError
    \/ AnswerOther
    \/ Answer200

InitRequest == RequestInit /\ CleanIdle /\ ValidateIdle /\ ScrapeIdle /\ CollectIdle /\ ScheduleIdle

NextRequest == RequestNext

\* A call of safe_request
SpecRequest == InitRequest /\ [][NextRequest]_vars

\* A call of safe_request that keeps running: the interpreter executes the
\* loop as long as the call has not returned.
SpecRequestLive == InitRequest /\ [][NextRequest]_vars /\ WF_vars(NextRequest)


\* ------------------------------------------------------------------------
\* collect_events (run_api.py): the per-team cache and the API fetch
\* ------------------------------------------------------------------------
\* The most nested calls of fetch_venue_range one run makes before the
\* interpreter raises RecursionError (sys.getrecursionlimit(), scaled down).
RecursionLimit == 2

\* The most requests of one run that safe_request answers with None
MaxFaults == 1

\* The runs of run_api.py over the one cache directory
MaxRuns == 2

\* size, and the result cap of the API the auto-split looks for
PageSize == 50
ResultCap == 1000

\* The values of page.totalPages the API answers with: one page, two pages,
\* and as many pages as reach the cap (20 * 50 >= 1000).
TotalPagesAnswers == { 1, 2, 20 }

MonthOf(date) ==
    CHOOSE m \in 1..12 : Day(m, 1) <= date /\ date <= Day(m, DaysInMonth(2026, m))

DayOf(date) == date - Day(MonthOf(date), 1) + 1

\* month_end = (current.replace(day=28) + timedelta(days=4)).replace(day=1)
\*             - timedelta(days=1)
MonthEnd(date) == Day(MonthOf(date), DaysInMonth(2026, MonthOf(date)))

\* build_date_ranges: the window cut at the month ends
RECURSIVE build_date_ranges(_, _)
build_date_ranges(current, end) ==
    IF current > end THEN <<>>
    ELSE LET range_end == Min(MonthEnd(current), end)
         IN  << [start |-> current, end |-> range_end] >>
             \o build_date_ranges(range_end + 1, end)

\* split_weekly: the range cut into ranges of at most 7 days
RECURSIVE split_weekly(_, _)
split_weekly(current, end) ==
    IF current > end THEN <<>>
    ELSE LET next_date == Min(current + 6, end)
         IN  << [start |-> current, end |-> next_date] >>
             \o split_weekly(next_date + 1, end)

\* should_use_cache, with os.path.exists(cache_file) as file.exists
should_use_cache_any_refresh(file, refresh_all, refresh_teams, team_name) ==
    IF refresh_all \/ refresh_teams # {} THEN FALSE
    ELSE file.exists

should_use_cache(file, refresh_all, refresh_teams, team_name) ==
    IF refresh_all THEN FALSE
    ELSE IF team_name \in refresh_teams THEN FALSE
    ELSE file.exists

\* The windows of the runs (--start-date, --end-date).
Window7 == [start |-> Day(4, 14), end |-> Day(4, 20)]
Window8 == [start |-> Day(4, 14), end |-> Day(4, 21)]
CollectWindows == { Window7, Window8 }

\* The arguments of a run, and whether TICKETMASTER_API_KEY is set
CollectArgs ==
    [ api_key : BOOLEAN,
      refresh_all : BOOLEAN,
      refresh_team : SUBSET TeamsOf(Registry),
      window : CollectWindows ]

\* The event the API lists on page `page` of the range starting at `start`
ApiEvent(start, page, venue) ==
    RawEvent(NameGame, 2026, MonthOf(start + page), DayOf(start + page), Time19, venue)

\* The cache files an earlier run left: none, or a list of one event
EarlierCacheFiles ==
    { MissingFile, CacheFile(<< RawEvent(NameKiss, 2026, 4, 20, Time20, VenueTD) >>) }

\* A frame of fetch_venue_range: its arguments start and end, its locals
\* page and all_events, and the weekly ranges the auto-split has yet to
\* fetch (splitting is FALSE while the page loop runs).
Frame(start, end) ==
    [start |-> start, end |-> end, page |-> 0, all_events |-> <<>>,
     splitting |-> FALSE, weekly |-> <<>>]

date_ranges == build_date_ranges(cargs.window.start, cargs.window.end)

FailedTeams == { faults[i] : i \in 1..Len(faults) }

Top == stack[Len(stack)]

SetTop(frame) == [stack EXCEPT ![Len(stack)] = frame]

Pop == SubSeq(stack, 1, Len(stack) - 1)

CollectInit ==
    /\ cpc = "begin"
    /\ cargs \in CollectArgs
    /\ api_cache \in [TeamsOf(Registry) -> EarlierCacheFiles]
    /\ cache_at_start = api_cache
    /\ crow = 0
    /\ range_idx = 0
    /\ venue_events = <<>>
    /\ stack = <<>>
    /\ returned = <<>>
    /\ http = {}
    /\ clog = <<>>
    /\ collected = <<>>
    /\ craised = "none"
    /\ faults = <<>>
    /\ partial = {}
    /\ runs = 1

\* collect_events up to the venue loop: the API key is required.
CollectBegin ==
    /\ cpc = "begin"
    /\ IF cargs.api_key
       THEN /\ cpc' = "team"
            /\ crow' = 1
            /\ UNCHANGED craised
       ELSE /\ cpc' = "done"
            /\ craised' = "ValueError"
            /\ UNCHANGED crow
    /\ UNCHANGED << cargs, api_cache, cache_at_start, range_idx, venue_events, stack,
                    returned, http, clog, collected, faults, partial, runs >>
    /\ UNCHANGED << cleanVars, validateVars, scrapeVars, requestVars, scheduleVars >>

\* The end of the loop body: tag the events, extend all_events, set
\* summary[team], and go to the next row or leave the loop.
EndOfTeam(team, events) ==
    /\ collected' = Append(collected, [team |-> team, events |-> TagTeam(events, team)])
    /\ crow' = crow + 1
    /\ cpc' = IF crow = Len(Registry) THEN "done" ELSE "team"

\* A row of a team whose cache is used: load the file.
LoadCache ==
    /\ cpc = "team"
    /\ LET team == Registry[crow].Team
       IN  /\ should_use_cache(api_cache[team], cargs.refresh_all, cargs.refresh_team, team)
           /\ venue_events' = api_cache[team].events
           /\ clog' = Append(clog, [kind |-> "cache", team |-> team])
           /\ EndOfTeam(team, api_cache[team].events)
    /\ UNCHANGED << cargs, api_cache, cache_at_start, range_idx, stack, returned, http,
                    craised, faults, partial, runs >>
    /\ UNCHANGED << cleanVars, validateVars, scrapeVars, requestVars, scheduleVars >>

\* A row of a team whose cache is not used: start the fetch.
BeginFetch ==
    /\ cpc = "team"
    /\ LET team == Registry[crow].Team
       IN  ~should_use_cache(api_cache[team], cargs.refresh_all, cargs.refresh_team, team)
    /\ venue_events' = <<>>
    /\ range_idx' = 1
    /\ cpc' = "range"
    /\ UNCHANGED << cargs, api_cache, cache_at_start, crow, stack, returned, http, clog,
                    collected, craised, faults, partial, runs >>
    /\ UNCHANGED << cleanVars, validateVars, scrapeVars, requestVars, scheduleVars >>

\* The next date range of the team: call fetch_venue_range.
FetchRange ==
    /\ cpc = "range"
    /\ range_idx <= Len(date_ranges)
    /\ clog' = Append(clog, [kind |-> "api", team |-> Registry[crow].Team])
    /\ stack' = << Frame(date_ranges[range_idx].start, date_ranges[range_idx].end) >>
    /\ cpc' = "fetch"
    /\ UNCHANGED << cargs, api_cache, cache_at_start, crow, range_idx, venue_events,
                    returned, http, collected, craised, faults, partial, runs >>
    /\ UNCHANGED << cleanVars, validateVars, scrapeVars, requestVars, scheduleVars >>

\* After the last date range: write the cache file of the team.
SaveCache ==
    /\ cpc = "range"
    /\ range_idx > Len(date_ranges)
    /\ LET team == Registry[crow].Team
       IN  /\ api_cache' = [api_cache EXCEPT ![team] = CacheFile(venue_events)]
           /\ partial' = IF team \in FailedTeams THEN partial \cup { team }
                         ELSE partial \ { team }
           /\ clog' = Append(clog, [kind |-> "saved", team |-> team])
           /\ EndOfTeam(team, venue_events)
    /\ UNCHANGED << cargs, cache_at_start, range_idx, venue_events, stack, returned, http,
                    craised, faults, runs >>
    /\ UNCHANGED << cleanVars, validateVars, scrapeVars, requestVars, scheduleVars >>

\* fetch_venue_range, page loop: safe_request returns None, and the call
\* returns what it has.
RequestFails ==
    /\ cpc = "fetch"
    /\ ~Top.splitting
    /\ Len(faults) < MaxFaults
    /\ faults' = Append(faults, Registry[crow].Team)
    /\ http' = http \cup { Registry[crow].Team }
    /\ returned' = Top.all_events
    /\ stack' = Pop
    /\ cpc' = "return"
    /\ UNCHANGED << cargs, api_cache, cache_at_start, crow, range_idx, venue_events, clog,
                    collected, craised, partial, runs >>
    /\ UNCHANGED << cleanVars, validateVars, scrapeVars, requestVars, scheduleVars >>

\* fetch_venue_range, page loop: safe_request returns a page.  At the cap
\* the call turns to the weekly ranges; else it keeps the events of the page
\* and goes to the next page or returns.
RequestAnswered ==
    /\ cpc = "fetch"
    /\ ~Top.splitting
    /\ http' = http \cup { Registry[crow].Team }
    /\ \E total_pages \in TotalPagesAnswers :
          IF total_pages * PageSize >= ResultCap
          THEN /\ stack' = SetTop([Top EXCEPT !.splitting = TRUE,
                                              !.weekly = split_weekly(Top.start, Top.end)])
               /\ UNCHANGED << cpc, returned >>
          ELSE LET extended == Append(Top.all_events,
                                        ApiEvent(Top.start, Top.page, Registry[crow].VenueName))
               IN  IF Top.page >= total_pages - 1
                   THEN /\ returned' = extended
                        /\ stack' = Pop
                        /\ cpc' = "return"
                   ELSE /\ stack' = SetTop([Top EXCEPT !.all_events = extended,
                                                       !.page = Top.page + 1])
                        /\ UNCHANGED << cpc, returned >>
    /\ UNCHANGED << cargs, api_cache, cache_at_start, crow, range_idx, venue_events, clog,
                    collected, craised, faults, partial, runs >>
    /\ UNCHANGED << cleanVars, validateVars, scrapeVars, requestVars, scheduleVars >>

\* fetch_venue_range, auto-split: call fetch_venue_range for the next weekly
\* range, or return all_events after the last.  A call beyond the recursion
\* limit raises RecursionError, which nothing catches.
SplitWeekly ==
    /\ cpc = "fetch"
    /\ Top.splitting
    /\ IF Top.weekly = <<>>
       THEN /\ returned' = Top.all_events
            /\ stack' = Pop
            /\ cpc' = "return"
            /\ UNCHANGED craised
       ELSE IF Len(stack) >= RecursionLimit
       THEN /\ craised' = "RecursionError"
            /\ stack' = <<>>
            /\ cpc' = "done"
            /\ UNCHANGED returned
       ELSE /\ stack' = Append(SetTop([Top EXCEPT !.weekly = Tail(Top.weekly)]),
                               Frame(Head(Top.weekly).start, Head(Top.weekly).end))
            /\ UNCHANGED << cpc, returned, craised >>
    /\ UNCHANGED << cargs, api_cache, cache_at_start, crow, range_idx, venue_events, http,
                    clog, collected, faults, partial, runs >>
    /\ UNCHANGED << cleanVars, validateVars, scrapeVars, requestVars, scheduleVars >>

\* A call of fetch_venue_range has returned: the caller extends its list,
\* all_events in a splitting call and venue_events in collect_events.
FetchReturns ==
    /\ cpc = "return"
    /\ IF stack = <<>>
       THEN /\ venue_events' = venue_events \o returned
            /\ range_idx' = range_idx + 1
            /\ cpc' = "range"
            /\ UNCHANGED stack
       ELSE /\ stack' = SetTop([Top EXCEPT !.all_events = Top.all_events \o returned])
            /\ cpc' = "fetch"
            /\ UNCHANGED << venue_events, range_idx >>
    /\ returned' = <<>>
    /\ UNCHANGED << cargs, api_cache, cache_at_start, crow, http, clog, collected, craised,
                    faults, partial, runs >>
    /\ UNCHANGED << cleanVars, validateVars, scrapeVars, requestVars, scheduleVars >>

\* run_api.py is started again, without refresh flags, over the cache
\* directory the run left.
RunAgain ==
    /\ cpc = "done"
    /\ runs < MaxRuns
    /\ runs' = runs + 1
    /\ cargs' \in { a \in CollectArgs : ~a.refresh_all /\ a.refresh_team = {} }
    /\ cache_at_start' = api_cache
    /\ cpc' = "begin"
    /\ crow' = 0
    /\ range_idx' = 0
    /\ venue_events' = <<>>
    /\ stack' = <<>>
    /\ returned' = <<>>
    /\ http' = {}
    /\ clog' = <<>>
    /\ collected' = <<>>
    /\ craised' = "none"
    /\ faults' = <<>>
    /\ UNCHANGED << api_cache, partial >>
    /\ UNCHANGED << cleanVars, validateVars, scrapeVars, requestVars, scheduleVars >>

CollectNext ==
    \/ CollectBegin
    \/ LoadCache
    \/ BeginFetch
    \/ FetchRange
    \/ SaveCache
    \/ RequestFails
    \/ RequestAnswered
    \/ SplitWeekly
    \/ FetchReturns
    \/ RunAgain

InitCollect == CollectInit /\ CleanIdle /\ ValidateIdle /\ ScrapeIdle /\ RequestIdle /\ ScheduleIdle

NextCollect == CollectNext

\* Runs of run_api.py up to the end of collect_events
SpecCollect == InitCollect /\ [][NextCollect]_vars


\* ------------------------------------------------------------------------
\* The /schedule endpoint (backend/app.py) and generate_playoff_schedule
\* (backend/scheduler.py)
\* ------------------------------------------------------------------------
\* NBA_TEAMS, the first eight teams of each conference
NBA_TEAMS ==
    << [name |-> "Boston Celtics", conference |-> "East", venue |-> "TD Garden"],
       [name |-> "Brooklyn Nets", conference |-> "East", venue |-> "Barclays Center"],
       [name |-> "New York Knicks", conference |-> "East", venue |-> "Madison Square Garden"],
       [name |-> "Philadelphia 76ers", conference |-> "East", venue |-> "Wells Fargo Center"],
       [name |-> "Toronto Raptors", conference |-> "East", venue |-> "Scotiabank Arena"],
       [name |-> "Chicago Bulls", conference |-> "East", venue |-> "United Center"],
       [name |-> "Cleveland Cavaliers", conference |-> "East",
        venue |-> "Rocket Mortgage FieldHouse"],
       [name |-> "Detroit Pistons", conference |-> "East", venue |-> "Little Caesars Arena"],
       [name |-> "Denver Nuggets", conference |-> "West", venue |-> "Ball Arena"],
       [name |-> "Minnesota Timberwolves", conference |-> "West", venue |-> "Target Center"],
       [name |-> "Oklahoma City Thunder", conference |-> "West", venue |-> "Paycom Center"],
       [name |-> "Portland Trail Blazers", conference |-> "West", venue |-> "Moda Center"],
       [name |-> "Utah Jazz", conference |-> "West", venue |-> "Delta Center"],
       [name |-> "Golden State Warriors", conference |-> "West", venue |-> "Chase Center"],
       [name |-> "LA Clippers", conference |-> "West", venue |-> "Crypto.com Arena"],
       [name |-> "Los Angeles Lakers", conference |-> "West", venue |-> "Crypto.com Arena"] >>

\* The venues of VENUE_EVENT_URLS that have a parser; for every other venue
\* get_venue_events falls back to the mock events.
ParsedVenues == { "TD Garden", "Madison Square Garden", "Chase Center" }

\* Dates are days after today; a scraped date that is not of the form
\* "%a, %b %d, %Y" stays as scraped and equals no '%Y-%m-%d' string.
RawDate == -1

\* The fallback of get_venue_events: events 5 and 12 days after today
MockEvents == << [event |-> "Concert", date |-> 5], [event |-> "Hockey Game", date |-> 12] >>

\* What get_venue_events returns for a venue
VenueEvents(venue_name) ==
    IF venue_name \in ParsedVenues
    THEN { MockEvents,
           <<>>,
           << [event |-> "Show", date |-> 0], [event |-> "Show", date |-> 1],
              [event |-> "Tour", date |-> RawDate] >> }
    ELSE { MockEvents }

\* The query parameters east_teams and west_teams: eight seeds, four seeds,
\* three seeds, and a list that names a venue in place of a team.
East8 ==
    << "Boston Celtics", "Brooklyn Nets", "New York Knicks", "Philadelphia 76ers",
       "Toronto Raptors", "Chicago Bulls", "Cleveland Cavaliers", "Detroit Pistons" >>
West8 ==
    << "Denver Nuggets", "Minnesota Timberwolves", "Oklahoma City Thunder",
       "Portland Trail Blazers", "Utah Jazz", "Golden State Warriors", "LA Clippers",
       "Los Angeles Lakers" >>
East4 == SubSeq(East8, 1, 4)
West4 == << "Golden State Warriors", "Denver Nuggets", "LA Clippers", "Los Angeles Lakers" >>
East3 == SubSeq(East8, 1, 3)
East4Venue == << "Boston Celtics", "New York Knicks", "Brooklyn Nets", "TD Garden" >>

TeamLists ==
    { << East8, West8 >>, << East4, West4 >>, << East4Venue, West4 >>, << East4, East3 >> }

MinDaysChoices == { 0, 1, 2 }

GamesPerSeries == 7

\* rounds[:-1]
ConferenceRounds ==
    << [name |-> "Quarterfinals", num |-> 8],
       [name |-> "Semifinals", num |-> 4],
       [name |-> "Conference Finals", num |-> 2] >>

ElementsOf(seq) == { seq[i] : i \in 1..Len(seq) }

\* venues = {t["venue"] for t in selected_teams}
SelectedVenues(east, west) ==
    { NBA_TEAMS[i].venue : i \in { j \in 1..Len(NBA_TEAMS) :
                                     NBA_TEAMS[j].name \in ElementsOf(east \o west) } }

\* events = {venue: get_venue_events(venue) for venue in venues}
EventsMaps(venues) ==
    { [v \in venues |-> IF v \in ParsedVenues THEN scraped[v] ELSE MockEvents] :
        scraped \in [ParsedVenues -> VenueEvents("TD Garden")] }

\* busy = set(e['date'] for e in events.get(venue, []))
Busy(venue) ==
    IF venue \in DOMAIN sched_events
    THEN { sched_events[venue][i].date : i \in 1..Len(sched_events[venue]) }
    ELSE {}

\* next_available: the first date from after_date on that is not in busy
RECURSIVE next_available(_, _)
next_available(venue, after_date) ==
    IF after_date \in Busy(venue) THEN next_available(venue, after_date + 1)
    ELSE after_date

\* matchups = [(round_teams[i], round_teams[-(i+1)]) for i in range(num//2)]
Matchups(teams, num) ==
    [i \in 1..(num \div 2) |-> << teams[i], teams[Len(teams) + 1 - i] >>]

\* The keys of events that equal the name of one of the two teams
VenueKeys(high, low) == { t \in DOMAIN sched_events : t = high \/ t = low }

ThisRound == ConferenceRounds[rnd]

ScheduleInit ==
    /\ gpc = "series"
    /\ \E lists \in TeamLists :
          /\ east_teams = lists[1]
          /\ west_teams = lists[2]
          /\ round_teams = lists[1]
          /\ sched_events \in EventsMaps(SelectedVenues(lists[1], lists[2]))
    /\ min_days \in MinDaysChoices
    /\ conf = 1
    /\ rnd = 1
    /\ matchup = 1
    /\ sched_venue = "None"
    /\ game = 0
    /\ sched_d = 0
    /\ round_start = 0
    /\ game_dates = <<>>
    /\ schedule = <<>>
    /\ graised = "none"

\* The start of a series: the matchups of the round (IndexError when the
\* round has too few teams), the venue of the series, and d = round_start.
BeginSeries ==
    /\ gpc = "series"
    /\ IF Len(round_teams) < ThisRound.num \div 2
       THEN /\ graised' = "IndexError"
            /\ gpc' = "done"
            /\ UNCHANGED << sched_venue, game, sched_d, game_dates >>
       ELSE LET high == Matchups(round_teams, ThisRound.num)[matchup][1]
                low == Matchups(round_teams, ThisRound.num)[matchup][2]
            IN  /\ IF VenueKeys(high, low) = {}
                   THEN sched_venue' = "None"
                   ELSE sched_venue' \in VenueKeys(high, low)
                /\ game_dates' = <<>>
                /\ sched_d' = round_start
                /\ game' = 0
                /\ gpc' = "game"
                /\ UNCHANGED graised
    /\ UNCHANGED << east_teams, west_teams, min_days, sched_events, conf, rnd, round_teams,
                    matchup, round_start, schedule >>
    /\ UNCHANGED << cleanVars, validateVars, scrapeVars, requestVars, collectVars >>

\* One game of the series
PlayGame ==
    /\ gpc = "game"
    /\ game < GamesPerSeries
    /\ LET date == next_available(sched_venue, sched_d)
       IN  /\ game_dates' = Append(game_dates, date)
           /\ sched_d' = date + min_days
    /\ game' = game + 1
    /\ UNCHANGED << gpc, east_teams, west_teams, min_days, sched_events, conf, rnd,
                    round_teams, matchup, sched_venue, round_start, schedule, graised >>
    /\ UNCHANGED << cleanVars, validateVars, scrapeVars, requestVars, collectVars >>

\* The end of a series: record it, and go to the next matchup, the next
\* round with the top seeds, the other conference, or the finals.
EndSeries ==
    /\ gpc = "game"
    /\ game = GamesPerSeries
    /\ schedule' = Append(schedule,
                          [round |-> ThisRound.name,
                           teams |-> Matchups(round_teams, ThisRound.num)[matchup],
                           dates |-> game_dates])
    /\ IF matchup < ThisRound.num \div 2
       THEN /\ matchup' = matchup + 1
            /\ gpc' = "series"
            /\ UNCHANGED << conf, rnd, round_teams, round_start >>
       ELSE /\ matchup' = 1
            /\ IF rnd < Len(ConferenceRounds)
               THEN /\ round_teams' = [i \in 1..(ThisRound.num \div 2) |->
                                          Matchups(round_teams, ThisRound.num)[i][1]]
                    /\ round_start' = sched_d
                    /\ rnd' = rnd + 1
                    /\ gpc' = "series"
                    /\ UNCHANGED conf
               ELSE IF conf = 1
               THEN /\ round_teams' = west_teams
                    /\ round_start' = 0
                    /\ rnd' = 1
                    /\ conf' = 2
                    /\ gpc' = "series"
               ELSE /\ round_teams' = [i \in 1..(ThisRound.num \div 2) |->
                                          Matchups(round_teams, ThisRound.num)[i][1]]
                    /\ round_start' = sched_d
                    /\ gpc' = "finals"
                    /\ UNCHANGED << conf, rnd >>
    /\ UNCHANGED << east_teams, west_teams, min_days, sched_events, sched_venue, game,
                    sched_d, game_dates, graised >>
    /\ UNCHANGED << cleanVars, validateVars, scrapeVars, requestVars, collectVars >>

\* The start of the finals: finals_venue = east_champ, d = round_start.
BeginFinals ==
    /\ gpc = "finals"
    /\ sched_venue' = east_teams[1]
    /\ sched_d' = round_start
    /\ game_dates' = <<>>
    /\ game' = 0
    /\ gpc' = "finals game"
    /\ UNCHANGED << east_teams, west_teams, min_days, sched_events, conf, rnd, round_teams,
                    matchup, round_start, schedule, graised >>
    /\ UNCHANGED << cleanVars, validateVars, scrapeVars, requestVars, collectVars >>

\* One game of the finals
PlayFinalsGame ==
    /\ gpc = "finals game"
    /\ game < GamesPerSeries
    /\ LET date == next_available(sched_venue, sched_d)
       IN  /\ game_dates' = Append(game_dates, date)
           /\ sched_d' = date + min_days
    /\ game' = game + 1
    /\ UNCHANGED << gpc, east_teams, west_teams, min_days, sched_events, conf, rnd,
                    round_teams, matchup, sched_venue, round_start, schedule, graised >>
    /\ UNCHANGED << cleanVars, validateVars, scrapeVars, requestVars, collectVars >>

\* The end of the finals: record them and return.
EndFinals ==
    /\ gpc = "finals game"
    /\ game = GamesPerSeries
    /\ schedule' = Append(schedule,
                          [round |-> "NBA Finals",
                           teams |-> << east_teams[1], west_teams[1] >>,
                           dates |-> game_dates])
    /\ gpc' = "done"
    /\ UNCHANGED << east_teams, west_teams, min_days, sched_events, conf, rnd, round_teams,
                    matchup, sched_venue, game, sched_d, round_start, game_dates, graised >>
    /\ UNCHANGED << cleanVars, validateVars, scrapeVars, requestVars, collectVars >>

ScheduleNext ==
    \/ BeginSeries
    \/ PlayGame
    \/ EndSeries
    \/ BeginFinals
    \/ PlayFinalsGame
    \/ EndFinals

InitSchedule == ScheduleInit /\ CleanIdle /\ ValidateIdle /\ ScrapeIdle /\ RequestIdle /\ CollectIdle

NextSchedule == ScheduleNext

\* A request of the /schedule endpoint
SpecSchedule == InitSchedule /\ [][NextSchedule]_vars

\* ------------------------------------------------------------------------
\* Specifications
\* ------------------------------------------------------------------------
Init == CleanInit /\ ValidateIdle /\ ScrapeIdle /\ RequestIdle /\ CollectIdle /\ ScheduleIdle

Next == CleanNext

\* A cleaning run
Spec == Init /\ [][Next]_vars

InitValidate ==
    ValidateInit /\ CleanIdle /\ ScrapeIdle /\ RequestIdle /\ CollectIdle /\ ScheduleIdle

NextValidate == ValidateNext

\* A validation run
SpecValidate == InitValidate /\ [][NextValidate]_vars

InitSchema ==
    /\ (CleanInitSchema /\ ValidateIdle) \/ (ValidateInitSchema /\ CleanIdle)
    /\ ScrapeIdle /\ RequestIdle /\ CollectIdle /\ ScheduleIdle

NextSchema == CleanNext \/ ValidateNext

\* A run of clean_events.py or of validate.py over input files that may lack
\* a column
SpecSchema == InitSchema /\ [][NextSchema]_vars

InitScrape ==
    ScrapeInit /\ CleanIdle /\ ValidateIdle /\ RequestIdle /\ CollectIdle /\ ScheduleIdle

NextScrape == ScrapeNext

\* A run of the scraper runner
SpecScrape == InitScrape /\ [][NextScrape]_vars


\* ------------------------------------------------------------------------
\* Properties of the cleaning run
\* ------------------------------------------------------------------------
\* <<y, m, d>> of a before-or-equal <<y, m, d>> of b, field by field
DateLeq(a, b) ==
    \/ a.y < b.y
    \/ a.y = b.y /\ a.m < b.m
    \/ a.y = b.y /\ a.m = b.m /\ a.d <= b.d

\* The raw events of team's cache file a canonical record can come from
SourcesOf(r) ==
    { i \in 1..Len(cache[r.team].events) :
        LET ev == cache[r.team].events[i]
        IN  ev.name = r.name /\ ev.time = r.time /\ ev.venue = r.venue
            /\ IsValidDate(ev.date) /\ Timestamp(ev.date) = r.date }

\* C1 (window invariant): every record of the canonical dataset written by
\* the cleaning run has a date d with start <= d <= end, both inclusive, and
\* comes from a raw event whose calendar date lies in the window.
WindowInvariant ==
    output.exists =>
        \A i \in 1..Len(output.rows) :
            /\ Timestamp(args.start) <= output.rows[i].date
            /\ output.rows[i].date <= Timestamp(args.end)
            /\ \E k \in SourcesOf(output.rows[i]) :
                   LET ev == cache[output.rows[i].team].events[k]
                   IN  DateLeq(args.start, ev.date) /\ DateLeq(ev.date, args.end)

\* C1 witness: a dataset was written that keeps a record dated on the last
\* day of the window while a raw event dated after the window was dropped.
WindowWitness ==
    /\ output.exists
    /\ \E i \in 1..Len(output.rows) : output.rows[i].date = Timestamp(args.end)
    /\ \E t \in DOMAIN cache : \E k \in 1..Len(cache[t].events) :
           /\ IsValidDate(cache[t].events[k].date)
           /\ ~DateLeq(cache[t].events[k].date, args.end)

\* C2 (exclusion invariant): no record of the canonical dataset has a name
\* whose lowercased form contains a keyword of exclude_kw as a substring.
ExclusionInvariant ==
    output.exists =>
        \A i \in 1..Len(output.rows) : \A k \in 1..Len(exclude_kw) :
            ~Contains(exclude_kw[k], Lower(output.rows[i].name))

\* C2 witness: a dataset with a record was written from caches that held, in
\* the window and at a registry arena, an event named with a keyword in
\* upper case ("Club DEPOSIT").
ExclusionWitness ==
    /\ output.exists
    /\ output.rows # <<>>
    /\ \E t \in DOMAIN cache : \E k \in 1..Len(cache[t].events) :
           LET ev == cache[t].events[k]
           IN  /\ ev.name = NameDeposit
               /\ DateLeq(args.start, ev.date) /\ DateLeq(ev.date, args.end)

\* C3 (dedup key uniqueness): no two distinct records of the canonical
\* dataset have the same (team, date, time, venue), also after the venue
\* stage has removed records.
DedupKeyUnique ==
    output.exists =>
        \A i, j \in 1..Len(output.rows) :
            i # j =>
                << output.rows[i].team, output.rows[i].date,
                   output.rows[i].time, output.rows[i].venue >>
                # << output.rows[j].team, output.rows[j].date,
                     output.rows[j].time, output.rows[j].venue >>

\* C3 witness: one team's cache held two events of the same key and of
\* different names, and the written dataset has a record of that key.
DedupWitness ==
    /\ output.exists
    /\ \E t \in DOMAIN cache :
           /\ Len(cache[t].events) = 2
           /\ cache[t].events[1].name # cache[t].events[2].name
           /\ cache[t].events[1].date = cache[t].events[2].date
           /\ cache[t].events[1].time = cache[t].events[2].time
           /\ cache[t].events[1].venue = cache[t].events[2].venue
           /\ \E i \in 1..Len(output.rows) :
                  /\ output.rows[i].team = t
                  /\ output.rows[i].venue = cache[t].events[1].venue
                  /\ output.rows[i].time = cache[t].events[1].time

\* The venue, lowercased and stripped, is inside a canonical name of the
\* registry or has one inside it.
Resolves(venue) ==
    \E i \in 1..Len(venues_df) :
        LET canonical == Strip(Lower(venues_df[i].VenueName))
            v == Strip(Lower(venue))
        IN  Contains(v, canonical) \/ Contains(canonical, v)

\* C4 (venue resolution): a record that reaches the venue-resolution stage
\* is kept if and only if its venue resolves against some canonical name;
\* the others are removed and the run goes on to the write without an error.
VenueResolution ==
    [][ pc = "venue" =>
          /\ \A i \in 1..Len(df) :
                 (\E j \in 1..Len(df') : df'[j] = df[i]) <=> Resolves(df[i].venue)
          /\ \A j \in 1..Len(df') : \E i \in 1..Len(df) : df[i] = df'[j]
          /\ pc' = "write" /\ raised' = "none" ]_vars

\* C4 witness: after the venue stage a record at "TD Garden Plaza" is kept
\* and another record was removed.
VenueWitness ==
    /\ pc = "write"
    /\ \E i \in 1..Len(df) : df[i].venue = VenueTDPlaza
    /\ \E n \in 1..Len(log) : log[n].msg = "After dedup" /\ log[n].n > Len(df)

\* C5 (idempotence of dedup): the deduplicate-and-sort step applied to its
\* own output returns the same sequence of records.
DedupIdempotent ==
    pc = "venue" => DedupAndSort(df) = df

\* C5 witness: the output of the dedup step has two records that tie on
\* (date, venue).
DedupIdempotentWitness ==
    /\ pc = "venue"
    /\ Len(df) = 2
    /\ df[1].date = df[2].date
    /\ df[1].venue = df[2].venue


\* C9 (EmptyDataset): whenever zero records remain after the filtering stages
\* of a run of clean_events.py, the run ends normally, writes no output file
\* and reports the condition.
EmptyDatasetNoFile ==
    (script = "clean_events" /\ pc = "done" /\ df = <<>>) =>
        /\ raised = "none"
        /\ ~output.exists
        /\ \E n \in 1..Len(log) : log[n].msg = "No cached events found. Nothing to save."

\* The events the load loop gathers from rows i.. of a registry: those of the
\* teams whose cache file holds events, tagged, in registry order
RECURSIVE EventsOfPresentTeams(_, _)
EventsOfPresentTeams(venues, i) ==
    IF i > Len(venues) THEN <<>>
    ELSE (IF cache[venues[i].Team].events # <<>>
          THEN TagTeam(cache[venues[i].Team].events, venues[i].Team) ELSE <<>>)
         \o EventsOfPresentTeams(venues, i + 1)

\* The rows of a registry whose team has a cache file that holds events
RECURSIVE PresentRows(_)
PresentRows(venues) ==
    IF venues = <<>> THEN <<>>
    ELSE (IF cache[Head(venues).Team].events # <<>> THEN <<Head(venues)>> ELSE <<>>)
         \o PresentRows(Tail(venues))

\* The output file of a cleaning run over the given events and registry
CleanedFile(events, venues) ==
    IF events = <<>> THEN NoFile
    ELSE [exists |-> TRUE,
          rows |-> FilterArena(
                     DedupAndSort(FilterKeywords(
                       FilterWindow(ParseDates(events),
                                    Timestamp(args.start), Timestamp(args.end)))),
                     ArenaNames(venues))]

RuleAsClaimed(s, a) ==
    \/ SubSeq(s, 1, IF Len(s) < 6 THEN Len(s) ELSE 6) = SubSeq(a, 1, IF Len(a) < 6 THEN Len(a) ELSE 6)
    \/ Len(s) > 4 /\ Contains(SubSeq(s, 1, IF Len(s) < 8 THEN Len(s) ELSE 8), a)
    \/ Len(a) > 4 /\ Contains(SubSeq(a, 1, IF Len(a) < 8 THEN Len(a) ELSE 8), s)

\* The same rule with the prefix clause restricted to non-empty names
RuleNonEmptyPrefix(s, a) ==
    \/ s # <<>> /\ a # <<>>
       /\ SubSeq(s, 1, IF Len(s) < 6 THEN Len(s) ELSE 6) = SubSeq(a, 1, IF Len(a) < 6 THEN Len(a) ELSE 6)
    \/ Len(s) > 4 /\ Contains(SubSeq(s, 1, IF Len(s) < 8 THEN Len(s) ELSE 8), a)
    \/ Len(a) > 4 /\ Contains(SubSeq(a, 1, IF Len(a) < 8 THEN Len(a) ELSE 8), s)

\* The API events at the designated venue dated one day around date
ApiCandidates(venue_name, date) ==
    { i \in 1..Len(api_df) :
        /\ Contains(Lower(venue_name), Lower(api_df[i].venue))
        /\ api_df[i].date - date \in {-1, 0, 1} }

\* C6 as claimed (cross-source matching rule): a scraped event is recorded as
\* matched if and only if an API event at the venue, dated the same day, the
\* day after or the day before, has a normalized name with the same first 6
\* characters, or one name (longer than 4) has its first 8 characters inside
\* the other.
MatchRuleAsClaimed ==
    \A n \in 1..Len(detail_rows) :
        detail_rows[n].matched_in_api <=>
            \E i \in ApiCandidates(detail_rows[n].venue, detail_rows[n].date) :
                RuleAsClaimed(normalize(detail_rows[n].scraper_name), normalize(api_df[i].name))

\* C6 amended: the same, the equal-prefix clause counting only when both
\* normalized names are non-empty.
MatchRule ==
    \A n \in 1..Len(detail_rows) :
        detail_rows[n].matched_in_api <=>
            \E i \in ApiCandidates(detail_rows[n].venue, detail_rows[n].date) :
                RuleNonEmptyPrefix(normalize(detail_rows[n].scraper_name), normalize(api_df[i].name))

\* C6 witness: a scraped event recorded as matched through an API event of
\* the day before only, the API holding no event of its own date.
MatchRuleWitness ==
    \E n \in 1..Len(detail_rows) :
        /\ detail_rows[n].matched_in_api
        /\ \A i \in 1..Len(api_df) : api_df[i].date # detail_rows[n].date
        /\ \A i \in 1..Len(api_df) : api_df[i].date # detail_rows[n].date + 1

\* <<date, name>> of the detail rows of a designated venue, in order
RECURSIVE DetailOf(_, _)
DetailOf(rows, venue_name) ==
    IF rows = <<>> THEN <<>>
    ELSE (IF Head(rows).venue = venue_name
          THEN << << Head(rows).date, Head(rows).scraper_name >> >> ELSE <<>>)
         \o DetailOf(Tail(rows), venue_name)

\* <<date, name>> of the scraped events whose venue has the designated name
\* inside it, letter case ignored, in order
RECURSIVE ScrapedAt(_, _)
ScrapedAt(rows, venue_name) ==
    IF rows = <<>> THEN <<>>
    ELSE (IF Contains(Lower(venue_name), Lower(Head(rows).venue))
          THEN << << Head(rows).date, Head(rows).name >> >> ELSE <<>>)
         \o ScrapedAt(Tail(rows), venue_name)

\* C7 as claimed (one match record per scraped event): after a validation
\* run the detail output has exactly one row for every event of the scraped
\* dataset, carrying its venue, date and name.
OneRowPerScrapedEvent ==
    vpc = "done" =>
        /\ Len(detail_out.rows) = Len(scr_df)
        /\ \A j \in 1..Len(scr_df) : \E n \in 1..Len(detail_out.rows) :
               /\ detail_out.rows[n].date = scr_df[j].date
               /\ detail_out.rows[n].scraper_name = scr_df[j].name
               /\ Contains(Lower(detail_out.rows[n].venue), Lower(scr_df[j].venue))

\* C7 amended: after a validation run the detail output has, for every
\* designated venue, exactly one row per scraped event whose venue string
\* has the venue's name inside it, in the order of the scraped dataset, and
\* no other row; the file is written only when there is such a row.
OneRowPerDesignatedEvent ==
    vpc = "done" =>
        /\ detail_out.exists <=> detail_out.rows # <<>>
        /\ \A k \in 1..Len(scraper_venues) :
               DetailOf(detail_out.rows, scraper_venues[k]) = ScrapedAt(scr_df, scraper_venues[k])
        /\ \A n \in 1..Len(detail_out.rows) :
               /\ \E k \in 1..Len(scraper_venues) : detail_out.rows[n].venue = scraper_venues[k]
               /\ detail_out.rows[n].matched_in_api \in BOOLEAN

\* C7 witness: the run ended with a detail file of two rows, one matched and
\* one not.
OneRowWitness ==
    /\ vpc = "done"
    /\ detail_out.exists
    /\ Len(detail_out.rows) = 2
    /\ detail_out.rows[1].matched_in_api # detail_out.rows[2].matched_in_api

\* Number of rows of a sequence that satisfy a test
CountRows(rows, Test(_)) == Cardinality({ i \in 1..Len(rows) : Test(rows[i]) })

StageLogged(msg) == \E n \in 1..Len(log) : log[n].msg = msg

\* C11 (single final write): a step of a cleaning run changes the output
\* file only once, as the last step, after the date-window, keyword, dedup
\* and venue-resolution stages have completed, and writes the frame those
\* stages left; a run that has not finished, or that raised, has no output
\* file.
SingleFinalWrite ==
    [][ /\ output' # output =>
            /\ pc = "write" /\ pc' = "done"
            /\ ~output.exists
            /\ StageLogged("After date filter")
            /\ StageLogged("After keyword filter")
            /\ StageLogged("After dedup")
            /\ StageLogged("After same-venue filter")
            /\ output' = [exists |-> TRUE, rows |-> df]
        /\ output'.exists => (pc' = "done" /\ raised' = "none")
        /\ (pc' # "done" \/ raised' # "none") => output' = NoFile ]_vars

\* C11 witness: a finished run wrote records, after a stage had dropped
\* some of the raw events.
SingleFinalWriteWitness ==
    /\ pc = "done"
    /\ output.exists
    /\ output.rows # <<>>
    /\ Len(output.rows) < Len(all_events)

\* C11 witness of the failing run: the legacy script raised and left no file.
FailedRunNoFile ==
    /\ pc = "done"
    /\ raised # "none"
    /\ ~output.exists

\* ------------------------------------------------------------------------
\* Input files that lack a column
\* ------------------------------------------------------------------------
\* The cleaning run has an input file whose records lack the column: the
\* registry, or the events of a cache that holds events.
CleanSchemaMismatch ==
    \/ lacking \in RegistryColumns
    \/ lacking \in EventColumns /\ \E t \in DOMAIN cache : cache[t].events # <<>>

SchemaMismatchCsvWitness ==
    /\ csv_lacking = "scraper Venue"
    /\ scr_df # <<>>
    /\ vpc = "done"
    /\ vraised = "KeyError"
    /\ report_out = NoFile

\* ------------------------------------------------------------------------
\* Records the stages drop or keep
\* ------------------------------------------------------------------------
\* The events whose date is a calendar date, in order
RECURSIVE ValidDated(_)
ValidDated(events) ==
    IF events = <<>> THEN <<>>
    ELSE (IF IsValidDate(Head(events).date) THEN <<Head(events)>> ELSE <<>>)
         \o ValidDated(Tail(events))

CanonicalRecordInvariant ==
    output.exists =>
        \A i \in 1..Len(output.rows) :
            /\ output.rows[i].date # NaT
            /\ SourcesOf(output.rows[i]) # {}
            /\ output.rows[i].name # <<>>

\* C15 (sort order): the records of the written dataset are in ascending
\* (date, venue) order, the venue compared as a string, code point by code
\* point: of two adjacent records the earlier has a smaller date, or the same
\* date and a venue that is not greater.
SortOrder ==
    output.exists =>
        \A i \in 1..(Len(output.rows) - 1) :
            \/ output.rows[i].date < output.rows[i + 1].date
            \/ /\ output.rows[i].date = output.rows[i + 1].date
               /\ ~StrLess(output.rows[i + 1].venue, output.rows[i].venue)

\* C15 witness: two records of one date were loaded with the greater venue
\* first and written with the smaller venue first.
SortOrderWitness ==
    /\ output.exists
    /\ Len(output.rows) = 2
    /\ Len(all_events) = 2
    /\ output.rows[1].date = output.rows[2].date
    /\ StrLess(output.rows[1].venue, output.rows[2].venue)
    /\ all_events[1].venue = output.rows[2].venue
    /\ all_events[2].venue = output.rows[1].venue

\* ------------------------------------------------------------------------
\* The deduplicator
\* ------------------------------------------------------------------------
\* The permutations of 1..n
Perms(n) == { p \in [1..n -> 1..n] : \A i, j \in 1..n : p[i] = p[j] => i = j }

\* The rows in the order p
Permuted(rows, p) == [i \in 1..Len(rows) |-> rows[p[i]]]

RowSet(rows) == { rows[i] : i \in 1..Len(rows) }

KeySet(rows) ==
    { << rows[i].team, rows[i].date, rows[i].time, rows[i].venue >> : i \in 1..Len(rows) }

\* The (date, venue) of each row, in order
SortKeys(rows) == [i \in 1..Len(rows) |-> << rows[i].date, rows[i].venue >>]

\* Rows that share a (team, date, time, venue) key are equal in every field.
FieldIdentical(rows) ==
    \A i, j \in 1..Len(rows) :
        << rows[i].team, rows[i].date, rows[i].time, rows[i].venue >>
          = << rows[j].team, rows[j].date, rows[j].time, rows[j].venue >>
        => rows[i] = rows[j]

\* C16 as claimed (dedup determinism on multisets): the deduplicator gives
\* the same set of full records, name included, for every permutation of its
\* input.
DedupDeterminismAsClaimed ==
    pc = "dedup" =>
        \A p \in Perms(Len(df)) :
            RowSet(DedupAndSort(Permuted(df, p))) = RowSet(DedupAndSort(df))

\* C16 amended: for every permutation of its input the deduplicator gives
\* records of the input with the same set of (team, date, time, venue) keys,
\* the same number of records and the same (date, venue) at every position;
\* the records themselves are the same when the records that share a key
\* are equal in every field.
DedupDeterminism ==
    pc = "dedup" =>
        \A p \in Perms(Len(df)) :
            LET a == DedupAndSort(df)
                b == DedupAndSort(Permuted(df, p))
            IN  /\ RowSet(b) \subseteq RowSet(df)
                /\ KeySet(b) = KeySet(df)
                /\ KeySet(a) = KeySet(b)
                /\ Len(a) = Len(b)
                /\ SortKeys(a) = SortKeys(b)
                /\ FieldIdentical(df) => RowSet(a) = RowSet(b)

\* C16 witness: the deduplicator's input holds two records of one key and of
\* different names, and the record that survives depends on their order.
DedupDeterminismWitness ==
    /\ pc = "dedup"
    /\ Len(df) = 2
    /\ ~FieldIdentical(df)
    /\ \E p \in Perms(Len(df)) :
           RowSet(DedupAndSort(Permuted(df, p))) # RowSet(DedupAndSort(df))

\* The rows of the given key
RowsOfKey(rows, k) ==
    { i \in 1..Len(rows) :
        << rows[i].team, rows[i].date, rows[i].time, rows[i].venue >> = k }

\* C17 (exact-match dedup key): the deduplication step keeps records of its
\* input, exactly one for each distinct (team, date, time, venue) present in
\* the input, so two records are collapsed only when the four values are
\* equal; of two records equal in (team, date, time) whose venues differ in
\* letter case or surrounding whitespace, each has a record of its own key
\* left.
ExactMatchDedup ==
    [][ (pc = "dedup" /\ pc' = "venue") =>
            /\ RowSet(df') \subseteq RowSet(df)
            /\ \A k \in KeySet(df) : Cardinality(RowsOfKey(df', k)) = 1
            /\ \A i, j \in 1..Len(df) :
                   (/\ df[i].team = df[j].team
                    /\ df[i].date = df[j].date
                    /\ df[i].time = df[j].time
                    /\ df[i].venue # df[j].venue
                    /\ Strip(Lower(df[i].venue)) = Strip(Lower(df[j].venue)))
                   => /\ Cardinality(RowsOfKey(df', << df[i].team, df[i].date, df[i].time,
                                                       df[i].venue >>)) = 1
                      /\ Cardinality(RowsOfKey(df', << df[j].team, df[j].date, df[j].time,
                                                       df[j].venue >>)) = 1 ]_vars

\* C17 witness: the deduplication has run over two records of one team, date
\* and time at 'TD Garden' and at ' td garden ', and both are left.
ExactMatchDedupWitness ==
    /\ pc = "venue"
    /\ StageLogged("After dedup")
    /\ Len(df) = 2
    /\ {df[1].venue, df[2].venue} = {VenueTD, VenueTDLoose}
    /\ df[1].team = df[2].team /\ df[1].date = df[2].date /\ df[1].time = df[2].time

\* C17 witness of the collapse: two raw events of one key and of different
\* names went into the deduplication and one record came out.
ExactMatchCollapseWitness ==
    /\ pc = "venue"
    /\ Len(all_events) = 2
    /\ all_events[1].name # all_events[2].name
    /\ StageLogged("After keyword filter")
    /\ \E n \in 1..Len(log) : log[n] = Line("After keyword filter", 2)
    /\ Len(df) = 1

\* ------------------------------------------------------------------------
\* The API-only events of the validation report
\* ------------------------------------------------------------------------
\* The number of scraped rows the match loop finds a match for
MatchedCountOf(api_rows, scr_rows) ==
    Cardinality({ j \in 1..Len(scr_rows) :
                    Found(ApiByDate(api_rows), scr_rows[j].date, normalize(scr_rows[j].name)) })

RemoveAt(rows, i) == SubSeq(rows, 1, i - 1) \o SubSeq(rows, i + 1, Len(rows))

\* No scraped row has the date of the API row.
OnNoScrapedDate(a, scr_rows) == \A j \in 1..Len(scr_rows) : scr_rows[j].date # a.date

\* Every scraped row is dated two days or more away from the API row.
FarFromScraped(a, scr_rows) ==
    \A j \in 1..Len(scr_rows) : scr_rows[j].date - a.date \notin {-1, 0, 1}

\* The API rows of the venue on no scraped date of the venue, by index
ApiOnlyIndices(venue_name) ==
    { i \in 1..Len(api_df) :
        /\ Contains(Lower(venue_name), Lower(api_df[i].venue))
        /\ \A j \in 1..Len(scr_df) :
               Contains(Lower(venue_name), Lower(scr_df[j].venue))
               => scr_df[j].date # api_df[i].date }

\* The reported API-only events of a coverage line are the API rows of the
\* venue on no scraped date of the venue.
ApiOnlyByDate(l) ==
    /\ RowSet(l.api_only) = { api_df[i] : i \in ApiOnlyIndices(l.venue) }
    /\ Len(l.api_only) = Cardinality(ApiOnlyIndices(l.venue))

ApiOnlyFarWitness ==
    \E n \in 1..Len(lines) :
        /\ lines[n].kind = "coverage"
        /\ lines[n].matched = 1
        /\ \E i \in 1..Len(lines[n].api_only) :
               FarFromScraped(lines[n].api_only[i], RowsAtVenue(scr_df, lines[n].venue))

\* The API row av[i] is the match the loops over delta and api_names stop at
\* for the scraped row s: the first row, in the order of the deltas and then
\* of the rows, whose name matches.
IsMatchFound(av, i, s) ==
    \E k \in 1..Len(Deltas) :
        /\ av[i].date = s.date + Deltas[k]
        /\ NamesMatch(normalize(s.name), normalize(av[i].name))
        /\ \A i2 \in 1..Len(av) :
               (/\ NamesMatch(normalize(s.name), normalize(av[i2].name))
                /\ \E k2 \in 1..Len(Deltas) : av[i2].date = s.date + Deltas[k2])
               => \/ \E k2 \in (k + 1)..Len(Deltas) : av[i2].date = s.date + Deltas[k2]
                  \/ (av[i2].date = av[i].date /\ i <= i2)

\* C20 as claimed (consistency of the two unmatched lists): no API event
\* that is the match found for a scraped event of a venue is in the list of
\* API-only events the report gives for that venue.
UnmatchedListsConsistent ==
    \A n \in 1..Len(lines) :
        lines[n].kind = "coverage" =>
            LET av == RowsAtVenue(api_df, lines[n].venue)
                sv == RowsAtVenue(scr_df, lines[n].venue)
            IN  \A i \in 1..Len(av) : \A j \in 1..Len(sv) :
                    IsMatchFound(av, i, sv[j]) => av[i] \notin RowSet(lines[n].api_only)

\* ------------------------------------------------------------------------
\* The scraped dataset
\* ------------------------------------------------------------------------
\* C19 (scraped dataset dedup): the dataset the scraper runner writes has no
\* two rows of the same (Venue, Title, Date), holds a row for every (Venue,
\* Title, Date) a scraper returned and no other row, is in ascending (Date,
\* Venue) order, and is not written when no scraper returned an event.
ScrapedDatasetDedup ==
    /\ all_results = <<>> => ~scraped_out.exists
    /\ scraped_out.exists =>
           LET rows == scraped_out.rows
           IN  /\ \A i, j \in 1..Len(rows) :
                      i # j => << rows[i].Venue, rows[i].Title, rows[i].Date >>
                               # << rows[j].Venue, rows[j].Title, rows[j].Date >>
               /\ { << rows[i].Venue, rows[i].Title, rows[i].Date >> : i \in 1..Len(rows) }
                    = { << all_results[k].Venue, all_results[k].Title,
                           Timestamp(all_results[k].Date) >> : k \in 1..Len(all_results) }
               /\ \A i \in 1..Len(rows) :
                      \E k \in 1..Len(all_results) :
                          /\ rows[i].Time = all_results[k].Time
                          /\ rows[i].Venue = all_results[k].Venue
                          /\ rows[i].Title = all_results[k].Title
               /\ \A i \in 1..(Len(rows) - 1) :
                      \/ rows[i].Date < rows[i + 1].Date
                      \/ /\ rows[i].Date = rows[i + 1].Date
                         /\ ~StrLess(rows[i + 1].Venue, rows[i].Venue)

\* C19 witness: the scrapers returned three events, two of them of one
\* (Venue, Title, Date); the dataset was written with two rows, in another
\* order than the scrapers returned them.
ScrapedDatasetWitness ==
    /\ spc = "done"
    /\ scraped_out.exists
    /\ Len(all_results) = 3
    /\ Len(scraped_out.rows) = 2
    /\ scraped_out.rows[1].Venue = all_results[3].Venue
    /\ scraped_out.rows[1].Venue # scraped_out.rows[2].Venue

\* C19 witness of the run without events: every scraper failed or returned
\* nothing, and the run ended without a dataset.
NoEventsCollectedWitness ==
    /\ spc = "done"
    /\ sraised = "none"
    /\ all_results = <<>>
    /\ \E n \in 1..Len(summary) : summary[n].status = "FAILED"
    /\ ~scraped_out.exists
    /\ \E n \in 1..Len(slog) : slog[n].msg = "No events collected."

\* ------------------------------------------------------------------------
\* The venue-resolution stage and the team tag
\* ------------------------------------------------------------------------
\* The record r with the team tag t
Retagged(r, t) == [r EXCEPT !.team = t]

\* C27 (venue resolution ignores the team): the venue stage keeps a record
\* if and only if its venue resolves against some canonical name of the
\* registry; the same record under any other team tag gets the same
\* decision, two records of one venue get the same decision, and a record
\* whose venue resolves against the arena of another team is kept.
VenueIgnoresTeam ==
    [][ pc = "venue" =>
          \A i \in 1..Len(df) :
              LET kept == df[i] \in RowSet(df')
              IN  /\ kept <=> Resolves(df[i].venue)
                  /\ \A t \in TeamsOf(venues_df) :
                         kept <=> FilterArena(<< Retagged(df[i], t) >>,
                                              ArenaNames(venues_df)) # <<>>
                  /\ \A j \in 1..Len(df) :
                         df[i].venue = df[j].venue => (kept <=> df[j] \in RowSet(df'))
                  /\ (\E k \in 1..Len(venues_df) :
                          /\ venues_df[k].Team # df[i].team
                          /\ is_nba_arena(df[i].venue, << ArenaNames(venues_df)[k] >>))
                     => kept ]_vars

\* C27 witness: the written dataset has a record tagged Boston Celtics at
\* Barclays Center, the arena of the Brooklyn Nets only.
VenueIgnoresTeamWitness ==
    /\ pc = "done"
    /\ output.exists
    /\ \E i \in 1..Len(output.rows) :
           /\ output.rows[i].team = "Boston Celtics"
           /\ output.rows[i].venue = VenueBarclays
           /\ ~is_nba_arena(VenueBarclays, << Strip(Lower(VenueTD)) >>)

\* C28 (empty venue is accepted): with a registry that has a row,
\* is_nba_arena holds for the empty venue and for venues of whitespace only,
\* and the venue stage keeps every record whose venue is empty after
\* lowercasing and stripping.
EmptyVenueAccepted ==
    [][ /\ venues_df # <<>> =>
               /\ is_nba_arena(<<>>, ArenaNames(venues_df))
               /\ is_nba_arena(<<" ">>, ArenaNames(venues_df))
               /\ is_nba_arena(VenueWhitespace, ArenaNames(venues_df))
        /\ pc = "venue" =>
               \A i \in 1..Len(df) :
                   Strip(Lower(df[i].venue)) = <<>> => df[i] \in RowSet(df') ]_vars

\* C28 witness: the written dataset has a record whose venue is whitespace.
EmptyVenueWitness ==
    /\ pc = "done"
    /\ output.exists
    /\ \E i \in 1..Len(output.rows) :
           /\ output.rows[i].venue = VenueWhitespace
           /\ Strip(Lower(output.rows[i].venue)) = <<>>

\* ------------------------------------------------------------------------
\* Failures of the scrapers
\* ------------------------------------------------------------------------
\* The sum of the counts of the first n entries of the summary
RECURSIVE CountUpTo(_, _)
CountUpTo(entries, n) ==
    IF n = 0 THEN 0 ELSE CountUpTo(entries, n - 1) + entries[n].count

\* C24 (scraper failure isolation): an exception of a venue's scraper ends
\* neither the loop nor the run: the only exception that leaves main is that
\* of setup_driver; every venue the loop has passed has, in SCRAPERS order,
\* a summary entry (FAILED with count 0, or OK with the number of its
\* events in all_results) and a driver on which quit() was called; after the
\* loop every venue has its entry, and the events of the venues that
\* succeeded are saved.
ScraperFailureIsolation ==
    /\ sraised \in {"none", "WebDriverException"}
    /\ Len(summary) = sidx - 1
    /\ Len(drivers) = sidx - 1
    /\ \A n \in 1..Len(summary) :
           /\ summary[n].venue = SCRAPERS[n]
           /\ summary[n].status \in {"OK", "FAILED"}
           /\ summary[n].status = "FAILED" => summary[n].count = 0
           /\ \A k \in 1..summary[n].count :
                  all_results[CountUpTo(summary, n - 1) + k].Venue = SCRAPERS[n]
           /\ drivers[n].venue = SCRAPERS[n]
           /\ drivers[n].state \in QuitOutcomes
    /\ Len(all_results) = CountUpTo(summary, Len(summary))
    /\ (spc = "done" /\ sraised = "none") =>
           /\ Len(summary) = Len(SCRAPERS)
           /\ all_results # <<>> =>
                  /\ scraped_out.exists
                  /\ \A k \in 1..Len(all_results) :
                         \E i \in 1..Len(scraped_out.rows) :
                             /\ scraped_out.rows[i].Venue = all_results[k].Venue
                             /\ scraped_out.rows[i].Title = all_results[k].Title
                             /\ scraped_out.rows[i].Date = Timestamp(all_results[k].Date)

\* C24 witness: the scraper of TD Garden failed between two scrapers that
\* returned events; the run ended normally and saved the events of both.
ScraperFailureWitness ==
    /\ spc = "done"
    /\ sraised = "none"
    /\ summary[1].status = "OK" /\ summary[1].count > 0
    /\ summary[2].status = "FAILED"
    /\ summary[3].status = "OK" /\ summary[3].count > 0
    /\ drivers[2].state = "quit"
    /\ scraped_out.exists
    /\ \E i \in 1..Len(scraped_out.rows) : scraped_out.rows[i].Venue = SCRAPERS[1]
    /\ \E i \in 1..Len(scraped_out.rows) : scraped_out.rows[i].Venue = SCRAPERS[3]

\* ------------------------------------------------------------------------
\* C25  Retry termination
\* ------------------------------------------------------------------------
\* The sleep before a retry is at most 30 seconds, after a 429 answer and
\* after a server error alike: retry_delay starts at 2 and only the 429
\* branch changes it, to min(retry_delay * 2, 30).
SleepAtMostCap == slept <= RetryDelayCap /\ retry_delay <= RetryDelayCap

\* The server errors 502, 503 and 504 are retried at most max_retries times.
ServerErrorRetriesBounded == retries <= MaxRetriesDefault

\* C25: every call of safe_request returns, a response or None, after a
\* bounded number of HTTP attempts, whatever status codes the server answers
\* with.  A running call that is answered 429 every time never returns: the
\* 429 branch sleeps and continues without counting the attempt.
RetryTermination == <>(rpc = "returned")

\* ------------------------------------------------------------------------
\* C21  Auto-split termination
\* ------------------------------------------------------------------------
\* C21: every call of fetch_venue_range terminates and returns the events of
\* the requested range, also when a response at the cap makes it split the
\* range into weekly ranges, and also when the range is itself 7 days or
\* shorter.  split_weekly of a range of at most 7 days is that same range, so
\* while the API answers at the cap the call repeats itself with the same
\* arguments until the interpreter raises RecursionError.
AutoSplitTerminates == craised # "RecursionError"

\* ------------------------------------------------------------------------
\* C22  Cache decision
\* ------------------------------------------------------------------------
\* The run wrote the line [kind] of the team.
Logged(kind, team) ==
    \E n \in 1..Len(clog) : clog[n].kind = kind /\ clog[n].team = team

\* The loop body of the team has ended; CollectedOf is what it added to
\* all_events.
Processed(team) == \E n \in 1..Len(collected) : collected[n].team = team

CollectedOf(team) ==
    collected[CHOOSE n \in 1..Len(collected) : collected[n].team = team].events

\* --refresh-all is set, or --refresh-team names the team, or the team had no
\* cache file when the run began.
MustFetch(team) ==
    \/ cargs.refresh_all
    \/ team \in cargs.refresh_team
    \/ ~cache_at_start[team].exists

\* C22: a team's events are fetched from the API exactly when --refresh-all
\* is set, or --refresh-team names the team, or the team has no cache file;
\* otherwise the cached events are loaded, the file is left as it was and no
\* request is issued for the team.  When collection has completed, every
\* team of the registry has a cache file.
CacheDecision ==
    /\ \A team \in TeamsOf(Registry) :
          /\ (team \in http \/ Logged("api", team) \/ Logged("saved", team)) => MustFetch(team)
          /\ Logged("cache", team) => ~MustFetch(team)
          /\ (Processed(team) /\ MustFetch(team)) =>
                /\ team \in http
                /\ Logged("saved", team)
          /\ (Processed(team) /\ ~MustFetch(team)) =>
                /\ Logged("cache", team)
                /\ CollectedOf(team) = TagTeam(cache_at_start[team].events, team)
                /\ api_cache[team] = cache_at_start[team]
    /\ (cpc = "done" /\ craised = "none") =>
          \A team \in TeamsOf(Registry) : Processed(team) /\ api_cache[team].exists

\* A completed run that fetched the team --refresh-team names, although it
\* had a cache file, and loaded the other team from its cache file.
CacheDecisionWitness ==
    /\ cpc = "done"
    /\ craised = "none"
    /\ ~cargs.refresh_all
    /\ \E fetched \in TeamsOf(Registry), cached \in TeamsOf(Registry) :
          /\ cargs.refresh_team = { fetched }
          /\ cache_at_start[fetched].exists
          /\ fetched \in http
          /\ Logged("saved", fetched)
          /\ cached \notin http
          /\ Logged("cache", cached)

\* A completed run that fetched a team because it had no cache file.
CacheMissingWitness ==
    /\ cpc = "done"
    /\ craised = "none"
    /\ ~cargs.refresh_all
    /\ cargs.refresh_team = {}
    /\ \E team \in TeamsOf(Registry) :
          /\ ~cache_at_start[team].exists
          /\ team \in http
          /\ api_cache[team].exists

\* ------------------------------------------------------------------------
\* C26  Cache written after failed fetches
\* ------------------------------------------------------------------------
\* A fetch that has returned for every date range is followed by the write
\* of the cache file, with the events that were gathered, also when requests
\* for the team failed; a later run without refresh flags loads that list and
\* issues no request for the team.
CacheAfterCompletedFetch ==
    \A team \in TeamsOf(Registry) :
       /\ Logged("saved", team) =>
             /\ api_cache[team].exists
             /\ CollectedOf(team) = TagTeam(api_cache[team].events, team)
             /\ (team \in FailedTeams => team \in partial)
       /\ (team \in partial /\ cache_at_start[team].exists
             /\ ~cargs.refresh_all /\ cargs.refresh_team = {}) =>
             /\ team \notin http
             /\ api_cache[team] = cache_at_start[team]
             /\ Processed(team) =>
                   /\ Logged("cache", team)
                   /\ CollectedOf(team) = TagTeam(api_cache[team].events, team)

\* A later run without refresh flags has loaded the empty list that a run
\* whose only request for the team failed has written.
EmptyCacheLoadedWitness ==
    /\ runs > 1
    /\ \E team \in partial :
          /\ Logged("cache", team)
          /\ api_cache[team] = CacheFile(<<>>)
          /\ team \notin http

\* A later run without refresh flags has loaded the list that a run left
\* which gathered events for the team before a request failed.
PartialCacheLoadedWitness ==
    /\ runs > 1
    /\ \E team \in partial :
          /\ Logged("cache", team)
          /\ api_cache[team].events # <<>>
          /\ team \notin http

\* C26: when a team is fetched from the API, its cache file is written with
\* the events that were gathered, also when requests for it failed, so that
\* a later run without refresh flags loads that list and issues no request
\* for the team.  A fetch that ends in RecursionError after a request failed
\* writes no cache file, and the later run fetches the team again.
CacheAfterFailedFetch ==
    /\ CacheAfterCompletedFetch
    /\ (cpc = "done") =>
          \A team \in FailedTeams : Logged("saved", team) /\ api_cache[team].exists

\* ------------------------------------------------------------------------
\* C23  First open slot per venue
\* ------------------------------------------------------------------------
\* The venues of NBA_TEAMS of the team of that name
VenuesOfTeam(team) ==
    { NBA_TEAMS[i].venue : i \in { j \in 1..Len(NBA_TEAMS) : NBA_TEAMS[j].name = team } }

\* The arenas of a series: the venues of its two teams that are keys of the
\* events map.
ArenasOf(series) ==
    (VenuesOfTeam(series.teams[1]) \cup VenuesOfTeam(series.teams[2])) \cap DOMAIN sched_events

\* The series whose venue lookup found a key of events: a team named as its
\* venue is named.  Their games skip the busy dates of that key.
LookupFindsVenue ==
    /\ gpc = "game"
    /\ sched_venue \in DOMAIN sched_events
    /\ \E i \in 1..Len(game_dates) : game_dates[i] - 1 \in Busy(sched_venue)

\* C23: every game date of the returned schedule is a date on which the
\* arena of the series, the venue of one of its two teams in the events map,
\* has no event.  The lookup compares the keys of events, which are venue
\* names, with the team names, finds no venue, and no date is skipped.
FirstOpenSlot ==
    \A n \in 1..Len(schedule) :
       \E arena \in ArenasOf(schedule[n]) :
          \A i \in 1..Len(schedule[n].dates) : schedule[n].dates[i] \notin Busy(arena)

====
